---------------------------- MODULE Spec2Model ----------------------------
(***************************************************************************)
(* A model of o1-engineer: the model manager (src/model_manager.py) and    *)
(* the response-to-action pipeline of the interactive loop (src/o1-eng.py).*)
(*                                                                         *)
(* Text is modelled as a sequence of tokens: a token is a run of           *)
(* characters that the code never splits (a word, a path, a marker such as *)
(* "### FILE: ", a fence, a newline).  Concatenation of strings is \o.     *)
(***************************************************************************)
EXTENDS Integers, Sequences, FiniteSets, TLC

VARIABLES
    pc,                    \* where the main loop (or the start-up code) stands
    fs,                    \* the file system: path -> [kind, content, writable]
    added_files,           \* main's added_files dict, in insertion order
    conversation_history,  \* the global conversation_history list
    last_ai_response,      \* the global last_ai_response
    ai_response,           \* main's local ai_response
    retry_count,           \* retry_count of the apply_creation_steps call that awaits
    creq,                  \* bookkeeping of the running /create request
    ereq,                  \* bookkeeping and locals of the running /edit request
    rounds,                \* number of model round-trips issued in the session
    env,                   \* the process environment read by model_manager.py
    mgr,                   \* the ModelManager under construction / constructed
    cmd                    \* bookkeeping of the last /add, /reset, /review,
                           \* /planning, /quit or chat command of the loop

vars == <<pc, fs, added_files, conversation_history, last_ai_response,
          ai_response, retry_count, creq, ereq, rounds, env, mgr, cmd>>

sessionVars == <<pc, fs, added_files, conversation_history, last_ai_response,
                 ai_response, retry_count, creq, ereq, rounds>>

mgrVars == <<env, mgr>>

otherVars == <<env, mgr, cmd>>

\* Python's None, as a text no model response can be
None == <<"<None>">>

(***************************************************************************)
(* Bounds of the model.                                                    *)
(***************************************************************************)
MaxRounds == 4      \* model round-trips per session
MaxCalls == 2       \* chat_completion calls per ModelManager
MaxSessionRounds == 3   \* round-trips of the one-step commands
MaxChats == 11      \* round-trips of a long conversation
MaxApplies == 2     \* creation requests applied to one directory
MaxLines == 3       \* lines of a response given to parse_edit_instructions

Min(S) == CHOOSE x \in S : \A y \in S : x <= y
Max(S) == CHOOSE x \in S : \A y \in S : x >= y

(***************************************************************************)
(* Python string operations on token sequences.                            *)
(***************************************************************************)
NL == "\n"
SP == " "
FENCE == "FENCE"    \* the three-backtick code fence
FILE_MARK == "### FILE: "
FOLDER_MARK == "### FOLDER: "
EDIT_MARK == "File: "
BIG == "<200KB>"    \* a run of 200 * 1024 characters

IsSpace(t) == t \in {SP, NL}

\* \w+ : a token made of word characters only.
WordTokens == {"txt", "X", "Z", "junk", "Sorry", "fix", "use"}
IsWord(t) == t \in WordTokens

\* str.strip()
Strip(s) ==
    LET idx == {i \in 1..Len(s) : ~IsSpace(s[i])}
    IN  IF idx = {} THEN <<>> ELSE SubSeq(s, Min(idx), Max(idx))

\* str.lower() on single-character tokens
LowerChar(c) ==
    CASE c = "Y" -> "y"
      [] c = "E" -> "e"
      [] c = "S" -> "s"
      [] c = "N" -> "n"
      [] c = "O" -> "o"
      [] OTHER -> c

Lower(s) == [i \in 1..Len(s) |-> LowerChar(s[i])]

YES == <<"y", "e", "s">>

IsYes_bug(answer) == Lower(Strip(answer)) \in {YES, <<"y">>}

\* (await prompt_async(...)).strip().lower() == "yes"
IsYes(answer) == Lower(Strip(answer)) = YES

\* Python truthiness of a chat_with_ai result (None and "" are falsy).
Truthy(r) == r # None /\ r # <<>>

\* index of the first position >= from holding token t, 0 when there is none
FirstAt(s, t, from) ==
    LET idx == {i \in from..Len(s) : s[i] = t}
    IN  IF idx = {} THEN 0 ELSE Min(idx)

\* first position >= from whose token does not satisfy the class, Len(s)+1
\* when every remaining token does
SkipWords(s, from) ==
    LET idx == {i \in from..Len(s) : ~IsWord(s[i])}
    IN  IF idx = {} THEN Len(s) + 1 ELSE Min(idx)

SkipSpace(s, from) ==
    LET idx == {i \in from..Len(s) : ~IsSpace(s[i])}
    IN  IF idx = {} THEN Len(s) + 1 ELSE Min(idx)

(***************************************************************************)
(* The file system, as os.path.exists / os.access / open / os.makedirs see *)
(* it.                                                                     *)
(***************************************************************************)
Paths == {"a", "a/b.txt", "c.txt", "m.txt", "ro.txt", "d",
          "big", "big/1", "big/2", "big/3", "huge.txt"}

Absent == [kind |-> "none", content |-> <<>>, writable |-> FALSE]
FileOf(c, w) == [kind |-> "file", content |-> c, writable |-> w]
DirOf(w) == [kind |-> "dir", content |-> <<>>, writable |-> w]

\* os.path.dirname
Dirname(p) ==
    IF p = "a/b.txt" THEN "a"
    ELSE IF p \in {"big/1", "big/2", "big/3"} THEN "big"
    ELSE ""

\* os.path.exists
Exists(f, p) == p \in Paths /\ f[p].kind # "none"

Writable_bug(f, p) == p \in Paths /\ f[p].kind # "none"

\* os.access(path, os.W_OK)
Writable(f, p) == Exists(f, p) /\ f[p].writable

\* the working directory when the program starts
InitialFs ==
    [p \in Paths |->
        CASE p = "c.txt" -> FileOf(<<"Y">>, TRUE)
          [] p = "m.txt" -> FileOf(<<"M", NL>>, TRUE)
          [] p = "ro.txt" -> FileOf(<<"Y">>, FALSE)
          [] p = "d" -> DirOf(TRUE)
          [] p = "big" -> DirOf(TRUE)
          [] p \in {"big/1", "big/2", "big/3"} -> FileOf(<<BIG>>, TRUE)
          [] p = "huge.txt" -> FileOf(<<BIG, "Y">>, TRUE)
          [] OTHER -> Absent]

(***************************************************************************)
(* apply_creation_steps: the parser of a creation response.                *)
(***************************************************************************)
\* re.findall(r"```(?:\w+)?\s*([\s\S]*?)```", creation_response), from
\* position from on: the captured groups, in order.
RECURSIVE FindBlocks(_, _)
FindBlocks(s, from) ==
    LET open == FirstAt(s, FENCE, from)
    IN  IF open = 0 THEN <<>>
        ELSE LET start == SkipSpace(s, SkipWords(s, open + 1))
                 close == FirstAt(s, FENCE, start)
             IN  IF close = 0 THEN <<>>
                 ELSE <<SubSeq(s, start, close - 1)>> \o FindBlocks(s, close + 1)

code_blocks(creation_response) == FindBlocks(creation_response, 1)

\* the end of the line that starts at position i: the position of its "\n",
\* or Len(s)+1 on the last line
LineEnd(s, i) ==
    LET nl == FirstAt(s, NL, i) IN IF nl = 0 THEN Len(s) + 1 ELSE nl

\* re.match(r"### (FILE|FOLDER): (.+)", code.strip()): "." matches no newline
InfoMatch(code) ==
    LET c == Strip(code)
    IN  /\ Len(c) >= 2
        /\ c[1] \in {FILE_MARK, FOLDER_MARK}
        /\ c[2] # NL

ItemType(code) == IF Strip(code)[1] = FILE_MARK THEN "FILE" ELSE "FOLDER"

\* the text of group 2; it names a path of the model when it is one path token
ItemPath(code) ==
    LET c == Strip(code)
        toks == SubSeq(c, 2, LineEnd(c, 2) - 1)
    IN  IF Len(toks) = 1 THEN toks[1] ELSE "<other>"

\* re.sub(r"### FILE: .+\n", "", code, count=1).strip()
FileContent(code) ==
    LET hits == {i \in 1..Len(code) :
                    /\ code[i] = FILE_MARK
                    /\ i + 1 <= Len(code)
                    /\ code[i + 1] # NL
                    /\ FirstAt(code, NL, i + 1) # 0}
    IN  IF hits = {} THEN Strip(code)
        ELSE LET i == Min(hits)
                 k == FirstAt(code, NL, i + 1)
             IN  Strip(SubSeq(code, 1, i - 1) \o SubSeq(code, k + 1, Len(code)))

(***************************************************************************)
(* apply_creation_steps: the body of "for code in code_blocks".            *)
(* The outcome of one block is what happened to it; "error" is an          *)
(* exception (open() on a directory, os.makedirs on a file) that leaves    *)
(* the loop through "except Exception".                                    *)
(***************************************************************************)
ApplyFolder(f, path) ==
    IF f[path].kind = "dir"
    THEN [fs |-> f, outcome |-> "folder", path |-> path, content |-> <<>>]
    ELSE [fs |-> f, outcome |-> "error", path |-> path, content |-> <<>>]

ApplyFile(f, path, code) ==
    LET file_content == FileContent(code)
        directory == Dirname(path)
        f1 == IF directory # "" /\ ~Exists(f, directory)
              THEN [f EXCEPT ![directory] = DirOf(TRUE)]
              ELSE f
    IN  IF f1[path].kind = "dir"
        THEN [fs |-> f1, outcome |-> "error", path |-> path, content |-> <<>>]
        ELSE [fs |-> [f1 EXCEPT ![path] = FileOf(file_content, f1[path].writable)],
              outcome |-> "written", path |-> path, content |-> file_content]

ApplyBlock(f, code) ==
    IF InfoMatch(code)
    THEN LET item_type == ItemType(code)
             path == ItemPath(code)
         IN  IF ~Exists(f, path)
             THEN [fs |-> f, outcome |-> "skip_missing", path |-> path, content |-> <<>>]
             ELSE IF ~Writable(f, path)
             THEN [fs |-> f, outcome |-> "skip_perm", path |-> path, content |-> <<>>]
             ELSE IF item_type = "FOLDER"
             THEN ApplyFolder(f, path)
             ELSE ApplyFile(f, path, code)
    ELSE [fs |-> f, outcome |-> "skip_nomarker", path |-> "", content |-> <<>>]

LoopStep_bug(acc, code, i) ==
    LET r == ApplyBlock(acc.fs, code)
    IN  [fs |-> r.fs,
         ok |-> r.outcome \notin {"error", "skip_nomarker"},
         events |-> Append(acc.events,
                           [block |-> i, outcome |-> r.outcome, path |-> r.path,
                            content |-> r.content])]

\* one iteration of the loop, on the state acc the earlier iterations left:
\* the file system, whether an exception has ended the loop, and what
\* happened to each block reached so far
LoopStep(acc, code, i) ==
    LET r == ApplyBlock(acc.fs, code)
    IN  [fs |-> r.fs,
         ok |-> r.outcome # "error",
         events |-> Append(acc.events,
                           [block |-> i, outcome |-> r.outcome, path |-> r.path,
                            content |-> r.content])]

\* the whole loop over blocks[i..]; ok means it ran to "return True"
RECURSIVE LoopFrom(_, _, _)
LoopFrom(acc, blocks, i) ==
    IF i > Len(blocks) \/ ~acc.ok THEN acc
    ELSE LoopFrom(LoopStep(acc, blocks[i], i), blocks, i + 1)

Reverse(q) == [k \in 1..Len(q) |-> q[Len(q) + 1 - k]]

ApplyBlocks_bug(f, blocks, i) ==
    LoopFrom([fs |-> f, ok |-> TRUE, events |-> <<>>], Reverse(blocks), i)

\* "for code in code_blocks": the blocks one after the other, from the first
ApplyBlocks(f, blocks, i) ==
    LoopFrom([fs |-> f, ok |-> TRUE, events |-> <<>>], blocks, i)

(***************************************************************************)
(* chat_with_ai.  A dict such as added_files is a sequence of              *)
(* [path, content] records with distinct paths, in insertion order.  The   *)
(* outcome of model_manager.chat_completion is an input: it raises, or it  *)
(* returns a response whose "content" is a text.                           *)
(***************************************************************************)
CREATE_SYSTEM_PROMPT == "<CREATE_SYSTEM_PROMPT>"
EDIT_INSTRUCTION_PROMPT == "<EDIT_INSTRUCTION_PROMPT>"
APPLY_EDITS_PROMPT == "<APPLY_EDITS_PROMPT>"
HistoryLimit == 20

Raises == [ok |-> FALSE, content |-> <<>>]
Returns(c) == [ok |-> TRUE, content |-> c]

\* "Added files:\n" followed by one "File: ..\nContent:\n..\n\n" per entry
RECURSIVE FileContext(_, _)
FileContext(files, i) ==
    IF i > Len(files) THEN <<>>
    ELSE <<EDIT_MARK, files[i].path, NL, "Content:", NL>> \o files[i].content
         \o <<NL, NL>> \o FileContext(files, i + 1)

\* "\n".join(f"User: {msg}" if i % 2 == 0 else f"AI: {msg}" ...), i from 0
RECURSIVE Linearize(_, _)
Linearize(history, k) ==
    IF k > Len(history) THEN <<>>
    ELSE <<IF (k - 1) % 2 = 0 THEN "User: " ELSE "AI: ">> \o history[k]
         \o (IF k < Len(history) THEN <<NL>> ELSE <<>>)
         \o Linearize(history, k + 1)

UserMessage_bug(user_message, is_edit_request, files, history) ==
    LET m1 == IF files # <<>>
              THEN user_message \o <<NL, "Added files:", NL>>
                   \o FileContext(files, 1)
              ELSE user_message
        h == Linearize(history, 1)
    IN  IF h # <<>>
        THEN h \o <<NL, "User: ">> \o m1
        ELSE m1

\* user_message after the "if added_files" and "if not is_edit_request" parts
UserMessage(user_message, is_edit_request, files, history) ==
    LET m1 == IF files # <<>>
              THEN <<"Added files:", NL>> \o FileContext(files, 1) \o <<NL>>
                   \o user_message
              ELSE user_message
        h == Linearize(history, 1)
    IN  IF ~is_edit_request /\ h # <<>>
        THEN h \o <<NL, "User: ">> \o m1
        ELSE m1

\* message_content: what is sent as the single user message
MessageContent(user_message, is_edit_request, rc, files, history) ==
    LET um == UserMessage(user_message, is_edit_request, files, history)
    IN  IF is_edit_request
        THEN <<IF rc = 0 THEN EDIT_INSTRUCTION_PROMPT ELSE APPLY_EDITS_PROMPT,
               NL, NL, "User request: ">> \o um
        ELSE um

LastN_bug(h, n) == IF Len(h) > n THEN SubSeq(h, 1, n) ELSE h

\* conversation_history[-20:]
LastN(h, n) == IF Len(h) > n THEN SubSeq(h, Len(h) - n + 1, Len(h)) ELSE h

CaughtAfterAppend(sent) ==
    [ret |-> None, history |-> Append(conversation_history, sent),
     last |-> last_ai_response, sent |-> sent]

Caught_bug(sent) ==
    [ret |-> None, history |-> conversation_history, last |-> None, sent |-> sent]

\* "except Exception": the error is logged and None returned
Caught(sent) ==
    [ret |-> None, history |-> conversation_history,
     last |-> last_ai_response, sent |-> sent]

ChatWithAI_bug(user_message, is_edit_request, files, outcome) ==
    LET sent == MessageContent(user_message, is_edit_request, 0, files,
                               conversation_history)
    IN  IF ~outcome.ok
        THEN Caught(sent)
        ELSE [ret |-> outcome.content,
              history |-> IF is_edit_request THEN conversation_history
                          ELSE LastN(conversation_history
                                     \o <<user_message, outcome.content>>,
                                     HistoryLimit),
              last |-> outcome.content, sent |-> sent]

\* The whole call: the value returned, the globals after it, and the message
\* sent.  Every exception is caught and gives None, the globals untouched.
ChatWithAI(user_message, is_edit_request, files, outcome) ==
    LET um == UserMessage(user_message, is_edit_request, files, conversation_history)
        sent == MessageContent(user_message, is_edit_request, 0, files,
                               conversation_history)
    IN  IF ~outcome.ok
        THEN Caught(sent)
        ELSE [ret |-> outcome.content,
              history |-> IF is_edit_request THEN conversation_history
                          ELSE LastN(conversation_history
                                     \o <<um, outcome.content>>, HistoryLimit),
              last |-> outcome.content, sent |-> sent]

(***************************************************************************)
(* The /create command (main) and apply_creation_steps.                    *)
(***************************************************************************)
max_retries == 3

\* Responses the model may give to a creation request.
RNoBlock == <<"Sorry">>
RFileNew == <<FENCE, NL, FILE_MARK, "a/b.txt", NL, "X", NL, FENCE>>
RFileOld == <<FENCE, "txt", NL, FILE_MARK, "c.txt", NL, "X", NL, FENCE>>
RMixed == <<FENCE, NL, "junk", NL, FENCE, NL,
            FENCE, NL, FILE_MARK, "c.txt", NL, "Z", NL, FENCE, NL,
            FENCE, NL, FOLDER_MARK, "d", NL, FENCE>>
RReadOnly == <<FENCE, NL, FILE_MARK, "ro.txt", NL, "X", NL, FENCE, NL,
               FENCE, NL, FILE_MARK, "d", NL, "X", NL, FENCE>>
CreationResponses == {RNoBlock, RFileNew, RFileOld, RMixed, RReadOnly}
CreationOutcomes == {Raises} \cup {Returns(r) : r \in CreationResponses \cup {<<>>}}

\* What the user may type at a yes/no prompt.
Answers == {YES, <<SP, "Y", "E", "S", SP>>, <<"y">>, <<>>, <<"n", "o">>}

\* What the user may type after "/create".
Instructions == {<<>>, <<"make", SP, "it">>}

NoRequest ==
    [confirmed |-> None, attempts |-> 0, parsed |-> <<>>, echoed |-> None,
     result |-> "none", slept |-> <<>>, before |-> InitialFs,
     events |-> <<>>, rtfailed |-> FALSE,
     history0 |-> <<>>, files0 |-> <<>>, declined |-> FALSE]

Backoff_bug(rc) == 2 ^ (rc + 1)

\* the wait before the retry issued with retry_count = rc: time.sleep(2**rc)
Backoff(rc) == 2 ^ rc

RetryAllowed_bug(rc) == rc <= max_retries

RetryAllowed(rc) == rc < max_retries

Echo_bug(creation_response) == <<>>

\* what "print(creation_response)" shows when the retries are used up
Echo(creation_response) == creation_response

ApplyCreationSteps_bug(creation_response, rc, f, cq) ==
    LET cq1 == [cq EXCEPT !.attempts = @ + 1,
                          !.parsed = Append(@, creation_response)]
        blocks == code_blocks(creation_response)
    IN  IF creation_response = None
        THEN [fs |-> f, pc |-> "create_failed", retry_count |-> rc,
              creq |-> [cq EXCEPT !.result = "False"]]
        ELSE IF blocks # <<>>
        THEN LET r0 == ApplyBlocks(f, blocks, 1)
                 r == [r0 EXCEPT !.ok = @ /\ \E k \in 1..Len(r0.events) :
                                  r0.events[k].outcome \in {"written", "folder"}]
             IN  [fs |-> r.fs,
                  pc |-> IF r.ok THEN "prompt" ELSE "create_failed",
                  retry_count |-> rc,
                  creq |-> [cq1 EXCEPT
                      !.result = IF r.ok THEN "True" ELSE "False",
                      !.events = @ \o [i \in 1..Len(r.events) |->
                                          [rc |-> rc, resp |-> creation_response,
                                           ev |-> r.events[i]]]]]
        ELSE IF RetryAllowed(rc)
        THEN [fs |-> f, pc |-> "create_retry_chat", retry_count |-> rc,
              creq |-> [cq1 EXCEPT !.slept = Append(@, Backoff(rc))]]
        ELSE [fs |-> f, pc |-> "create_failed", retry_count |-> rc,
              creq |-> [cq1 EXCEPT !.result = "False",
                                   !.echoed = Echo(creation_response)]]

\* apply_creation_steps(creation_response, added_files, rc), from its first
\* line to its return or to the await of the retry round-trip: the file
\* system, where the program stands next, and the request's bookkeeping.
\* A creation_response of None makes re.findall raise TypeError, which
\* "except Exception" turns into False.
ApplyCreationSteps(creation_response, rc, f, cq) ==
    LET cq1 == [cq EXCEPT !.attempts = @ + 1,
                          !.parsed = Append(@, creation_response)]
        blocks == code_blocks(creation_response)
    IN  IF creation_response = None
        THEN [fs |-> f, pc |-> "create_failed", retry_count |-> rc,
              creq |-> [cq EXCEPT !.result = "False"]]
        ELSE IF blocks # <<>>
        THEN LET r == ApplyBlocks(f, blocks, 1)
             IN  [fs |-> r.fs,
                  pc |-> IF r.ok THEN "prompt" ELSE "create_failed",
                  retry_count |-> rc,
                  creq |-> [cq1 EXCEPT
                      !.result = IF r.ok THEN "True" ELSE "False",
                      !.events = @ \o [i \in 1..Len(r.events) |->
                                          [rc |-> rc, resp |-> creation_response,
                                           ev |-> r.events[i]]]]]
        ELSE IF RetryAllowed(rc)
        THEN [fs |-> f, pc |-> "create_retry_chat", retry_count |-> rc,
              creq |-> [cq1 EXCEPT !.slept = Append(@, Backoff(rc))]]
        ELSE [fs |-> f, pc |-> "create_failed", retry_count |-> rc,
              creq |-> [cq1 EXCEPT !.result = "False",
                                   !.echoed = Echo(creation_response)]]

\* "/create <instruction>": lines 700-716, with the first round-trip.
CmdCreate(instruction, outcome) ==
    /\ pc = "prompt"
    /\ rounds < MaxRounds
    /\ IF Strip(instruction) = <<>>
       THEN UNCHANGED sessionVars
       ELSE LET create_request ==
                    <<CREATE_SYSTEM_PROMPT, NL, NL, "User request: ">>
                    \o Strip(instruction)
                r == ChatWithAI(create_request, FALSE, added_files, outcome)
            IN  /\ conversation_history' = r.history
                /\ last_ai_response' = r.last
                /\ ai_response' = r.ret
                /\ rounds' = rounds + 1
                /\ pc' = IF Truthy(r.ret) THEN "create_confirm" ELSE "prompt"
                /\ creq' = [NoRequest EXCEPT
                               !.before = fs,
                               !.history0 = conversation_history,
                               !.files0 = added_files]
                /\ UNCHANGED <<fs, added_files, retry_count, ereq>>
    /\ UNCHANGED otherVars

\* The answer to "Do you want to execute these creation steps?": lines
\* 718-731 and 750-752, with apply_creation_steps up to its first await.
ConfirmCreate(answer) ==
    /\ pc = "create_confirm"
    /\ IF IsYes(answer)
       THEN LET r == ApplyCreationSteps(ai_response, 0, fs,
                        [NoRequest EXCEPT !.confirmed = ai_response,
                                          !.before = fs,
                                          !.history0 = creq.history0,
                                          !.files0 = creq.files0])
            IN  /\ fs' = r.fs
                /\ pc' = r.pc
                /\ retry_count' = r.retry_count
                /\ creq' = r.creq
       ELSE /\ pc' = "prompt"
            /\ creq' = [creq EXCEPT !.declined = TRUE]
            /\ UNCHANGED <<fs, retry_count>>
    /\ UNCHANGED <<added_files, conversation_history, last_ai_response,
                   ai_response, ereq, rounds>>
    /\ UNCHANGED otherVars

\* The retry round-trip of apply_creation_steps returns: lines 408-418, with
\* the recursive call up to its own first await.
RetryChat(outcome) ==
    /\ pc = "create_retry_chat"
    /\ rounds < MaxRounds
    /\ LET error_message ==
               <<"No code blocks found in the AI response.", SP,
                 "Please provide the creation instructions again using the specified format.">>
           c == ChatWithAI(error_message, FALSE, added_files, outcome)
       IN  /\ conversation_history' = c.history
           /\ last_ai_response' = c.last
           /\ rounds' = rounds + 1
           /\ IF Truthy(c.ret)
              THEN LET r == ApplyCreationSteps(c.ret, retry_count + 1, fs, creq)
                   IN  /\ fs' = r.fs
                       /\ pc' = r.pc
                       /\ retry_count' = r.retry_count
                       /\ creq' = r.creq
              ELSE /\ pc' = "create_failed"
                   /\ creq' = [creq EXCEPT !.result = "False", !.rtfailed = TRUE]
                   /\ UNCHANGED <<fs, retry_count>>
    /\ UNCHANGED <<added_files, ai_response, ereq>>
    /\ UNCHANGED otherVars

\* The answer to "Creation failed. Do you want the AI to try again?": lines
\* 733-749 and the top of the loop, 715-716.  rich's Markdown(None) is not
\* code of this program: it raises out of main, or it is rendered.
AnswerFailed(answer, outcome, markdown_raises) ==
    /\ pc = "create_failed"
    /\ IF ~IsYes(answer)
       THEN /\ pc' = "prompt"
            /\ UNCHANGED <<conversation_history, last_ai_response, ai_response,
                           rounds>>
       ELSE /\ rounds < MaxRounds
            /\ LET c == ChatWithAI(
                       <<"The previous creation attempt failed. Please try again with a different approach.">>,
                       FALSE, added_files, outcome)
               IN  /\ conversation_history' = c.history
                   /\ last_ai_response' = c.last
                   /\ ai_response' = c.ret
                   /\ rounds' = rounds + 1
                   /\ pc' = IF c.ret = None /\ markdown_raises
                            THEN "crashed" ELSE "create_confirm"
    /\ UNCHANGED <<fs, added_files, retry_count, creq, ereq>>
    /\ UNCHANGED otherVars

(***************************************************************************)
(* Python dicts, as sequences of [path, content] records.                  *)
(***************************************************************************)
Keys(d) == {d[i].path : i \in 1..Len(d)}

Get(d, k) == d[CHOOSE i \in 1..Len(d) : d[i].path = k].content

Put_bug(d, k, v) ==
    IF k \in Keys(d)
    THEN [i \in 1..Len(d) |-> IF d[i].path = k THEN [path |-> k, content |-> v]
                                               ELSE d[i]]
    ELSE <<[path |-> k, content |-> v]>> \o d

\* d[k] = v: a new key goes last, a known key keeps its place
Put(d, k, v) ==
    IF k \in Keys(d)
    THEN [i \in 1..Len(d) |-> IF d[i].path = k THEN [path |-> k, content |-> v]
                                               ELSE d[i]]
    ELSE Append(d, [path |-> k, content |-> v])

(***************************************************************************)
(* add_file_to_context, and the loop over the paths of /add and /edit.     *)
(* No path of the model lies in an excluded directory, matches a           *)
(* .gitignore pattern or holds binary content, and every file is readable. *)
(***************************************************************************)
MAX_FILE_SIZE == 200 * 1024

MAX_TOTAL_SIZE == MAX_FILE_SIZE * 3

\* len() of a token, in characters
CharLen(t) == IF t = BIG THEN 200 * 1024 ELSE 1

RECURSIVE Size(_)
Size(content) ==
    IF content = <<>> THEN 0 ELSE CharLen(Head(content)) + Size(Tail(content))

IsFile(f, p) == p \in Paths /\ f[p].kind = "file"
IsDir(f, p) == p \in Paths /\ f[p].kind = "dir"

add_file_to_context(f, file_path, files) ==
    IF ~Exists(f, file_path) THEN files
    ELSE IF ~IsFile(f, file_path) THEN files
    ELSE IF Size(f[file_path].content) > MAX_FILE_SIZE THEN files
    ELSE Put(files, file_path, f[file_path].content)

\* os.walk(path): the files below a directory of the model
FilesUnder(f, dir) ==
    IF dir = "a" /\ IsFile(f, "a/b.txt") THEN <<"a/b.txt">>
    ELSE IF dir = "big" THEN <<"big/1", "big/2", "big/3">>
    ELSE <<>>

RECURSIVE AddAll(_, _, _, _)
AddAll(f, paths, i, files) ==
    IF i > Len(paths) THEN files
    ELSE AddAll(f, paths, i + 1,
                IF IsFile(f, paths[i]) THEN add_file_to_context(f, paths[i], files)
                ELSE IF IsDir(f, paths[i])
                THEN AddAll(f, FilesUnder(f, paths[i]), 1, files)
                ELSE files)

(***************************************************************************)
(* parse_edit_instructions.                                                *)
(***************************************************************************)
\* response.split("\n")
RECURSIVE SplitLines(_, _)
SplitLines(s, from) ==
    IF FirstAt(s, NL, from) = 0 THEN <<SubSeq(s, from, Len(s))>>
    ELSE <<SubSeq(s, from, FirstAt(s, NL, from) - 1)>>
         \o SplitLines(s, FirstAt(s, NL, from) + 1)

IsMarkerLine_bug(line) == \E k \in 1..Len(line) : line[k] = EDIT_MARK

\* line.startswith("File: ")
IsMarkerLine(line) == line # <<>> /\ line[1] = EDIT_MARK

\* line[6:].strip(), as the path it names ("" when nothing is left)
MarkerPath(line) ==
    LET toks == Strip(Tail(line))
    IN  IF toks = <<>> THEN "" ELSE IF Len(toks) = 1 THEN toks[1] ELSE "<other>"

\* "\n".join(current_instructions)
RECURSIVE JoinLines(_, _)
JoinLines(ls, i) ==
    IF i > Len(ls) THEN <<>>
    ELSE ls[i] \o (IF i < Len(ls) THEN <<NL>> ELSE <<>>) \o JoinLines(ls, i + 1)

\* the state of the loop: instructions, current_file, current_instructions
ParseLine(st, line) ==
    IF IsMarkerLine(line)
    THEN [instructions |-> IF st.current_file # ""
                           THEN Put(st.instructions, st.current_file,
                                    JoinLines(st.current_instructions, 1))
                           ELSE st.instructions,
          current_file |-> MarkerPath(line),
          current_instructions |-> <<>>]
    ELSE IF Strip(line) # <<>> /\ st.current_file # ""
    THEN [st EXCEPT !.current_instructions = Append(@, Strip(line))]
    ELSE st

RECURSIVE ParseLines(_, _, _)
ParseLines(st, lines, i) ==
    IF i > Len(lines) THEN st ELSE ParseLines(ParseLine(st, lines[i]), lines, i + 1)

parse_edit_instructions_bug(response) ==
    ParseLines([instructions |-> <<>>, current_file |-> "",
                current_instructions |-> <<>>],
               SplitLines(response, 1), 1).instructions

parse_edit_instructions(response) ==
    LET st == ParseLines([instructions |-> <<>>, current_file |-> "",
                          current_instructions |-> <<>>],
                         SplitLines(response, 1), 1)
    IN  IF st.current_file # ""
        THEN Put(st.instructions, st.current_file,
                 JoinLines(st.current_instructions, 1))
        ELSE st.instructions

(***************************************************************************)
(* apply_edit_instructions and apply_modifications, as the loops of one    *)
(* /edit request.  The request's locals are in ereq: edit_instructions,    *)
(* original_files (main passes added_files), modified_files, the position  *)
(* i of apply_edit_instructions in original_files and the position j of    *)
(* main's loop in modified_files;                                          *)
(* with them, what the request has done so far: the messages sent for      *)
(* rewrites, what apply_modifications found for each file, the writes.     *)
(***************************************************************************)
NewEdit(response, original_files, f) ==
    [response |-> response,
     original_files |-> original_files,
     edit_instructions |-> parse_edit_instructions(response),
     modified_files |-> <<>>, i |-> 1, j |-> 1,
     sent |-> <<>>, handled |-> <<>>, writes |-> <<>>, before |-> f]

\* apply_edit_instructions from original_files[i] on, to the next file that
\* needs a round-trip (or to the end): the files passed over are copied.
RECURSIVE PassThrough(_)
PassThrough(er) ==
    IF er.i > Len(er.original_files) THEN er
    ELSE IF er.original_files[er.i].path \in Keys(er.edit_instructions) THEN er
    ELSE PassThrough([er EXCEPT !.i = @ + 1,
                                !.modified_files =
                                    Put(@, er.original_files[er.i].path,
                                        er.original_files[er.i].content)])

NoChanges_bug(old_content, new_content) == old_content = new_content

\* old_content.strip() == new_content.strip()
NoChanges(old_content, new_content) == Strip(old_content) = Strip(new_content)

\* the "for file_path, new_content in modified_files.items()" loop from
\* modified_files[j] on, to the next file whose prompt is shown (or to the
\* end).  open(file_path, "r") of a missing path or a directory raises, and
\* apply_modifications returns False.
RECURSIVE ApplyLoop(_, _)
ApplyLoop(er, f) ==
    IF er.j > Len(er.modified_files) THEN er
    ELSE LET file_path == er.modified_files[er.j].path
             new_content == er.modified_files[er.j].content
             seen(what) == [path |-> file_path, old |-> f[file_path].content,
                            new |-> new_content, outcome |-> what]
         IN  IF ~IsFile(f, file_path)
             THEN ApplyLoop([er EXCEPT !.j = @ + 1], f)
             ELSE IF NoChanges(f[file_path].content, new_content)
             THEN ApplyLoop([er EXCEPT !.j = @ + 1,
                                       !.handled = Append(@, seen("no changes"))], f)
             ELSE [er EXCEPT !.handled = Append(@, seen("prompt"))]

\* where the request stands once apply_edit_instructions has moved on
EditNext(er, f) ==
    LET e1 == PassThrough(er)
    IN  IF e1.i <= Len(e1.original_files)
        THEN [pc |-> "edit_rewrite", ereq |-> e1]
        ELSE LET e2 == ApplyLoop(e1, f)
             IN  [pc |-> IF e2.j <= Len(e2.modified_files) THEN "edit_apply"
                         ELSE "prompt",
                  ereq |-> e2]

\* the prompt of the rewrite round-trip (line 456)
RewritePrompt(file_path, content, instructions) ==
    <<APPLY_EDITS_PROMPT, NL, NL, "Original File: ", file_path, NL, "Content:", NL>>
    \o content \o <<NL, NL, "Edit Instructions:", NL>> \o instructions
    \o <<NL, NL, "Updated File Content:">>

\* edit_request (lines 665-670)
RECURSIVE FilesToModify(_, _)
FilesToModify(files, i) ==
    IF i > Len(files) THEN <<>>
    ELSE <<NL, EDIT_MARK, files[i].path, NL, "Content:", NL>>
         \o files[i].content \o <<NL, NL>> \o FilesToModify(files, i + 1)

EditRequest(edit_instruction, files) ==
    <<"User request: ">> \o edit_instruction
    \o <<NL, NL, "Files to modify:", NL>> \o FilesToModify(files, 1)

\* with open(file_path, "w") as file: file.write(new_content)
WriteFile(f, file_path, new_content) ==
    IF Writable(f, file_path)
    THEN [f EXCEPT ![file_path] = FileOf(new_content, TRUE)]
    ELSE f

(***************************************************************************)
(* The /edit command (main).                                               *)
(***************************************************************************)
\* Responses the model may give to the request for edit instructions.
ENoMarker == <<"Nothing", SP, "to", SP, "change", NL, SP, EDIT_MARK, "c.txt">>
EForC == <<EDIT_MARK, "c.txt", NL, "Instructions:", NL, "fix", NL>>
EForM == <<"Sure", NL, EDIT_MARK, "m.txt", SP, NL, NL, SP, "use", SP>>
EForBoth == <<EDIT_MARK, "m.txt", NL, "use", NL, EDIT_MARK, "zz", NL, "fix", NL,
              EDIT_MARK, "c.txt", NL, "fix">>
EditResponses == {ENoMarker, EForC, EForM, EForBoth}
EditOutcomes == {Raises} \cup {Returns(r) : r \in EditResponses}

\* Responses the model may give to a rewrite round-trip.
RewriteOutcomes ==
    {Raises, Returns(<<>>), Returns(<<"Z", NL>>), Returns(<<SP, "Y">>),
     Returns(<<"M">>)}

\* What the user may type after "/edit" (split on white space).
EditPaths == {<<>>, <<"c.txt">>, <<"m.txt">>, <<"zz", "ro.txt">>,
              <<"big", "c.txt">>}

\* "/edit <paths>": lines 636-658, to the prompt for the edit instruction.
CmdEdit(paths) ==
    /\ pc = "prompt"
    /\ rounds < MaxRounds
    /\ IF paths = <<>>
       THEN UNCHANGED <<pc, added_files>>
       ELSE /\ added_files' = AddAll(fs, paths, 1, added_files)
            /\ pc' = IF added_files' = <<>> THEN "prompt" ELSE "edit_instruction"
    /\ UNCHANGED <<fs, conversation_history, last_ai_response, ai_response,
                   retry_count, creq, ereq, rounds>>
    /\ UNCHANGED otherVars

\* The edit instruction is typed: lines 659-679, with the round-trip.
EditInstruction(edit_instruction, outcome) ==
    /\ pc = "edit_instruction"
    /\ rounds < MaxRounds
    /\ LET c == ChatWithAI(EditRequest(Strip(edit_instruction), added_files),
                           TRUE, added_files, outcome)
       IN  /\ conversation_history' = c.history
           /\ last_ai_response' = c.last
           /\ ai_response' = c.ret
           /\ pc' = IF Truthy(c.ret) THEN "edit_confirm" ELSE "prompt"
    /\ rounds' = rounds + 1
    /\ UNCHANGED <<fs, added_files, retry_count, creq, ereq>>
    /\ UNCHANGED otherVars

\* The answer to "Do you want to apply these edit instructions?": lines
\* 680-698, to the first await of the two loops.
ConfirmEdit(answer) ==
    /\ pc = "edit_confirm"
    /\ IF IsYes(answer)
       THEN LET n == EditNext(NewEdit(ai_response, added_files, fs), fs)
            IN  pc' = n.pc /\ ereq' = n.ereq
       ELSE pc' = "prompt" /\ UNCHANGED ereq
    /\ UNCHANGED <<fs, added_files, conversation_history, last_ai_response,
                   ai_response, retry_count, creq, rounds>>
    /\ UNCHANGED otherVars

RewriteReturn_bug(outcome) ==
    /\ pc = "edit_rewrite"
    /\ rounds < MaxRounds
    /\ LET file_path == ereq.original_files[ereq.i].path
           content == ereq.original_files[ereq.i].content
           prompt == RewritePrompt(file_path, content,
                                   Get(ereq.edit_instructions, file_path))
           c == ChatWithAI(prompt, TRUE, <<>>, outcome)
           e1 == [ereq EXCEPT
                    !.i = @ + 1,
                    !.sent = Append(@, [path |-> file_path, message |-> c.sent,
                                        ret |-> c.ret]),
                    !.modified_files = Put(@, file_path, Strip(c.ret))]
           n == EditNext(e1, fs)
       IN  /\ conversation_history' = c.history
           /\ last_ai_response' = c.last
           /\ pc' = n.pc
           /\ ereq' = n.ereq
    /\ rounds' = rounds + 1
    /\ UNCHANGED <<fs, added_files, ai_response, retry_count, creq>>
    /\ UNCHANGED otherVars

\* The rewrite round-trip of original_files[i] returns: lines 455-459, and
\* the loops to their next await.
RewriteReturn(outcome) ==
    /\ pc = "edit_rewrite"
    /\ rounds < MaxRounds
    /\ LET file_path == ereq.original_files[ereq.i].path
           content == ereq.original_files[ereq.i].content
           prompt == RewritePrompt(file_path, content,
                                   Get(ereq.edit_instructions, file_path))
           c == ChatWithAI(prompt, TRUE, <<>>, outcome)
           e1 == [ereq EXCEPT
                    !.i = @ + 1,
                    !.sent = Append(@, [path |-> file_path, message |-> c.sent,
                                        ret |-> c.ret]),
                    !.modified_files = IF Truthy(c.ret)
                                       THEN Put(@, file_path, Strip(c.ret))
                                       ELSE @]
           n == EditNext(e1, fs)
       IN  /\ conversation_history' = c.history
           /\ last_ai_response' = c.last
           /\ pc' = n.pc
           /\ ereq' = n.ereq
    /\ rounds' = rounds + 1
    /\ UNCHANGED <<fs, added_files, ai_response, retry_count, creq>>
    /\ UNCHANGED otherVars

\* The answer to "Apply these changes to <file>?": lines 299-316, and main's
\* loop to its next prompt.
ApplyAnswer(answer) ==
    /\ pc = "edit_apply"
    /\ LET file_path == ereq.modified_files[ereq.j].path
           new_content == ereq.modified_files[ereq.j].content
           f1 == IF IsYes(answer) THEN WriteFile(fs, file_path, new_content) ELSE fs
           e1 == [ereq EXCEPT
                    !.j = @ + 1,
                    !.writes = IF IsYes(answer) /\ Writable(fs, file_path)
                               THEN Append(@, [path |-> file_path,
                                               content |-> new_content,
                                               answer |-> answer])
                               ELSE @]
           e2 == ApplyLoop(e1, f1)
       IN  /\ fs' = f1
           /\ ereq' = e2
           /\ pc' = IF e2.j <= Len(e2.modified_files) THEN "edit_apply" ELSE "prompt"
    /\ UNCHANGED <<added_files, conversation_history, last_ai_response,
                   ai_response, retry_count, creq, rounds>>
    /\ UNCHANGED otherVars

(***************************************************************************)
(* model_manager.py: the registry, the construction of ModelManager (run   *)
(* at the import of o1-eng.py, lines 33-37) and chat_completion.           *)
(***************************************************************************)
Unset == "<unset>"       \* os.getenv gives None

MODEL_CONFIG ==
    [m \in {"anthropic/claude-3-5-sonnet-latest", "ollama/qwen2.5-coder:14b",
            "openai/gpt-4o"} |->
        CASE m = "anthropic/claude-3-5-sonnet-latest" ->
                 [requires_api_key |-> TRUE, env_key |-> "ANTHROPIC_API_KEY"]
          [] m = "ollama/qwen2.5-coder:14b" ->
                 [requires_api_key |-> FALSE, env_key |-> Unset]
          [] m = "openai/gpt-4o" ->
                 [requires_api_key |-> TRUE, env_key |-> "OPENAI_API_KEY"]]

ModelProvider == {"openai", "anthropic", "ollama"}

\* values of the MODEL variable: unset, empty, the registry's keys, and
\* names the registry does not hold
ModelValues ==
    {Unset, "", "openai/gpt-4", "gpt-4o", "mistral/large"} \cup DOMAIN MODEL_CONFIG
KeyValues == {Unset, "", "sk-key"}

\* model_name.split("/", 1): the provider and the model, or <<>> when the
\* unpacking raises ValueError
SplitName(model_name) ==
    CASE model_name = "anthropic/claude-3-5-sonnet-latest" ->
             <<"anthropic", "claude-3-5-sonnet-latest">>
      [] model_name = "ollama/qwen2.5-coder:14b" -> <<"ollama", "qwen2.5-coder:14b">>
      [] model_name = "openai/gpt-4o" -> <<"openai", "gpt-4o">>
      [] model_name = "openai/gpt-4" -> <<"openai", "gpt-4">>
      [] model_name = "mistral/large" -> <<"mistral", "large">>
      [] OTHER -> <<>>

Raised(error) == [ok |-> FALSE, error |-> error, value |-> <<>>]
Value(v) == [ok |-> TRUE, error |-> "", value |-> v]

\* "if not model" / "if not api_key": None and "" are falsy
Falsy(v) == v \in {Unset, ""}

load_model_config_bug(e) ==
    IF Falsy(e.MODEL) THEN Raised("ModelConfigurationError")
    ELSE Value(e.MODEL)

load_model_config(e) ==
    IF Falsy(e.MODEL) THEN Raised("ModelConfigurationError")
    ELSE IF e.MODEL \notin DOMAIN MODEL_CONFIG THEN Raised("ModelNotFoundError")
    ELSE Value(e.MODEL)

parse_model_name(model_name) ==
    LET parts == SplitName(model_name)
    IN  IF parts = <<>> THEN Raised("ModelConfigurationError")
        ELSE IF parts[1] \notin ModelProvider THEN Raised("ModelConfigurationError")
        ELSE Value(parts)

validate_api_keys_bug(e, model_name) ==
    IF model_name \notin DOMAIN MODEL_CONFIG THEN Raised("ModelNotFoundError")
    ELSE Value(<<>>)

validate_api_keys(e, model_name) ==
    IF model_name \notin DOMAIN MODEL_CONFIG THEN Raised("ModelNotFoundError")
    ELSE IF /\ MODEL_CONFIG[model_name].requires_api_key
            /\ Falsy(e[MODEL_CONFIG[model_name].env_key])
    THEN Raised("ModelConfigurationError")
    ELSE Value(<<>>)

\* the exception classes and their bases
Bases(error) ==
    IF error \in {"ModelConfigurationError", "ModelAPIError", "ModelNotFoundError"}
    THEN {error, "ModelError", "Exception"}
    ELSE {error, "Exception"}

\* An exception object: its class, the classes reached by following
\* __context__ (the exceptions being handled when it was raised, nearest
\* first), the classes reached by __cause__ ("raise ... from"), and str(e).
NoExc == [type |-> "", context |-> <<>>, cause |-> <<>>, msg |-> <<>>]

\* an exception raised by a provider library or by the interpreter
NativeExc(type) == [type |-> type, context |-> <<>>, cause |-> <<>>,
                    msg |-> <<type, " raised">>]

WrapIn_bug(type, prefix, e) ==
    [type |-> e.type, context |-> e.context, cause |-> e.cause, msg |-> e.msg]

\* "except Exception as e: raise <type>(f"<prefix>: {str(e)}")": the new
\* exception is raised while e is handled, so e becomes its __context__;
\* there is no "from e", so its __cause__ stays None.
WrapIn(type, prefix, e) ==
    [type |-> type, context |-> <<e.type>> \o e.context, cause |-> <<>>,
     msg |-> <<prefix, ": ">> \o e.msg]

\* the result of one chat_completion call
NoNative == [content |-> "", tool_calls |-> "", usage |-> ""]
NoValue == [content |-> <<>>, tool_calls |-> <<>>, usage |-> [total_tokens |-> 0]]
NoCall == [returned |-> FALSE, exc |-> NoExc, value |-> NoValue,
           native |-> NoNative, original |-> NoExc]

FailedMgr(error) ==
    [state |-> "failed", error |-> error, full_model_name |-> "",
     provider |-> "", model_name |-> "", client |-> 0, built |-> 0,
     network |-> 0, calls |-> 0, used |-> <<>>, last |-> NoCall]

\* ModelManager.__init__
NewModelManager(e) ==
    LET loaded == load_model_config(e)
    IN  IF ~loaded.ok THEN FailedMgr(loaded.error)
        ELSE LET parsed == parse_model_name(loaded.value)
             IN  IF ~parsed.ok THEN FailedMgr(parsed.error)
                 ELSE LET valid == validate_api_keys(e, loaded.value)
                      IN  IF ~valid.ok THEN FailedMgr(valid.error)
                          ELSE [state |-> "constructed", error |-> "",
                                full_model_name |-> loaded.value,
                                provider |-> parsed.value[1],
                                model_name |-> parsed.value[2],
                                client |-> 0, built |-> 0, network |-> 0,
                                calls |-> 0, used |-> <<>>, last |-> NoCall]

\* o1-eng.py lines 33-37: model_manager = ModelManager(), or sys.exit(1)
\* when a ModelConfigurationError or a ModelError is raised.
Construct ==
    /\ pc = "start"
    /\ mgr' = NewModelManager(env)
    /\ pc' = IF mgr'.state = "constructed" THEN "ready"
             ELSE IF "ModelError" \in Bases(mgr'.error) THEN "exited"
             ELSE "crashed"
    /\ UNCHANGED <<fs, added_files, conversation_history, last_ai_response,
                   ai_response, retry_count, creq, ereq, rounds, env, cmd>>

\* _initialize_client: the provider's client object, numbered in the order
\* of construction, or the ModelConfigurationError that wraps what the
\* provider's constructor raised (client_ok says whether it returns).
initialize_client(m, client_ok) ==
    IF m.provider \in ModelProvider /\ client_ok
    THEN [ok |-> TRUE, exc |-> NoExc, m |-> [m EXCEPT !.built = @ + 1],
          client |-> m.built + 1]
    ELSE [ok |-> FALSE,
          exc |-> WrapIn("ModelConfigurationError", "Error initializing client",
                         NativeExc("ProviderClientError")),
          m |-> m, client |-> 0]

client_bug(m, client_ok) ==
    LET c == initialize_client(m, client_ok)
    IN  IF c.ok THEN [c EXCEPT !.m = [c.m EXCEPT !.client = c.client]] ELSE c

\* the client property: self._client, constructed when it is None
client(m, client_ok) ==
    IF m.client = 0
    THEN LET c == initialize_client(m, client_ok)
         IN  IF c.ok THEN [c EXCEPT !.m = [c.m EXCEPT !.client = c.client]] ELSE c
    ELSE [ok |-> TRUE, exc |-> NoExc, m |-> m, client |-> m.client]

\* What a provider's library hands back from the awaited call: whether the
\* message text is there ("text"), is None ("null"), is missing ("absent":
\* no "content" key, an empty content list, an empty choices list) or is a
\* block without text ("tool_use"); whether tool calls are a list ("calls"),
\* None ("null") or no key/attribute at all ("absent"); and the same for the
\* usage ("tokens", "null", "absent").
InputTokens == 3
OutputTokens == 4
TEXT == <<"Sorry">>
CALLS == <<"call">>

NativeResponses(provider) ==
    CASE provider = "ollama" ->
             [content : {"text", "absent"},
              tool_calls : {"absent", "null", "calls"},
              usage : {"absent", "tokens"}]
      [] provider = "anthropic" ->
             [content : {"text", "absent", "tool_use"},
              tool_calls : {"absent"},
              usage : {"tokens"}]
      [] provider = "openai" ->
             [content : {"text", "null", "absent"},
              tool_calls : {"null", "calls"},
              usage : {"null", "tokens"}]
      [] OTHER -> {}

Formatted(v) == [ok |-> TRUE, exc |-> NoExc, value |-> v]
FormatRaises(type) == [ok |-> FALSE, exc |-> NativeExc(type), value |-> NoValue]

\* response.get("message", {}).get(key, default)
format_ollama_response(response) ==
    Formatted([content |-> IF response.content = "text" THEN TEXT ELSE <<>>,
               tool_calls |-> CASE response.tool_calls = "absent" -> <<>>
                                [] response.tool_calls = "null" -> None
                                [] OTHER -> CALLS,
               usage |-> [total_tokens |-> 0]])

format_anthropic_response(response) ==
    IF response.content = "tool_use" THEN FormatRaises("AttributeError")
    ELSE Formatted(
           [content |-> IF response.content = "text" THEN TEXT ELSE <<>>,
            tool_calls |-> IF response.tool_calls = "absent" THEN <<>> ELSE CALLS,
            usage |-> [total_tokens |->
                          IF response.usage = "absent" THEN 0
                          ELSE InputTokens + OutputTokens]])

openai_usage_bug(response) ==
    IF response.usage \in {"absent", "null"}
    THEN Formatted([total_tokens |-> 0])
    ELSE Formatted([total_tokens |-> InputTokens + OutputTokens,
                    prompt_tokens |-> InputTokens,
                    completion_tokens |-> OutputTokens])

\* response.usage.dict() if hasattr(response, "usage") else {"total_tokens": 0}
openai_usage(response) ==
    IF response.usage = "absent" THEN Formatted([total_tokens |-> 0])
    ELSE IF response.usage = "null" THEN FormatRaises("AttributeError")
    ELSE Formatted([total_tokens |-> InputTokens + OutputTokens,
                    prompt_tokens |-> InputTokens,
                    completion_tokens |-> OutputTokens])

format_openai_response(response) ==
    IF response.content = "absent" THEN FormatRaises("IndexError")
    ELSE LET usage == openai_usage(response)
         IN  IF ~usage.ok THEN FormatRaises(usage.exc.type)
             ELSE Formatted(
                    [content |-> IF response.content = "text" THEN TEXT ELSE None,
                     tool_calls |-> IF response.tool_calls = "null" THEN <<>>
                                    ELSE CALLS,
                     usage |-> usage.value])

format_response(provider, response) ==
    CASE provider = "ollama" -> format_ollama_response(response)
      [] provider = "anthropic" -> format_anthropic_response(response)
      [] provider = "openai" -> format_openai_response(response)

\* what the awaited provider call does: it raises, or it returns a response
TransportRaises == [raises |-> TRUE, native |-> NoNative]
TransportReturns(n) == [raises |-> FALSE, native |-> n]
TransportOutcomes(provider) ==
    {TransportRaises} \cup {TransportReturns(n) : n \in NativeResponses(provider)}

\* the body of the try block of chat_completion: _ollama_chat,
\* _anthropic_chat or _openai_chat with the client property, the awaited
\* call and the formatter
TryChat(m, client_ok, transport) ==
    LET c == client(m, client_ok)
        m1 == [c.m EXCEPT !.used = IF c.ok THEN Append(@, c.client) ELSE @,
                          !.network = IF c.ok THEN @ + 1 ELSE @]
    IN  IF ~c.ok THEN [m |-> m1, ok |-> FALSE, exc |-> c.exc, value |-> NoValue]
        ELSE IF transport.raises
        THEN [m |-> m1, ok |-> FALSE, exc |-> NativeExc("ProviderAPIError"),
              value |-> NoValue]
        ELSE LET f == format_response(m.provider, transport.native)
             IN  [m |-> m1, ok |-> f.ok, exc |-> f.exc, value |-> f.value]

\* chat_completion (lines 184-203): client_ok says whether the provider's
\* client constructor returns, transport what the awaited call does.
ChatCompletion(client_ok, transport) ==
    /\ pc = "ready"
    /\ mgr.calls < MaxCalls
    /\ LET t == TryChat(mgr, client_ok, transport)
       IN  mgr' = [t.m EXCEPT
                     !.calls = @ + 1,
                     !.last = [returned |-> t.ok,
                               exc |-> IF t.ok THEN NoExc
                                       ELSE WrapIn("ModelAPIError",
                                                   "Error in chat completion",
                                                   t.exc),
                               value |-> t.value,
                               native |-> IF t.m.network > mgr.network
                                          THEN transport.native
                                          ELSE NoNative,
                               original |-> t.exc]]
    /\ UNCHANGED <<pc, fs, added_files, conversation_history, last_ai_response,
                   ai_response, retry_count, creq, ereq, rounds, env, cmd>>

(***************************************************************************)
(* The commands of the main loop that are one step each: /quit, /reset,    *)
(* /add, /review, /planning and the plain chat message.                    *)
(***************************************************************************)
CODE_REVIEW_PROMPT == "<CODE_REVIEW_PROMPT>"
PLANNING_PROMPT == "<PLANNING_PROMPT>"

NoCmd == [name |-> "none", files0 |-> <<>>, history0 |-> <<>>,
          gathered |-> <<>>, total |-> 0, raised |-> FALSE, ret |-> None,
          message |-> <<>>, edit |-> FALSE, sent |-> <<>>]

\* sum(len(content) for content in added_files.values())
RECURSIVE TotalSize(_, _)
TotalSize(files, i) ==
    IF i > Len(files) THEN 0
    ELSE Size(files[i].content) + TotalSize(files, i + 1)

AfterAdd_bug(before, gathered) ==
    IF TotalSize(gathered, 1) > MAX_TOTAL_SIZE THEN before ELSE gathered

\* added_files after the size check of /add (lines 622-633): gathered is the
\* dict after the loop over the paths, before is the dict the command found
AfterAdd(before, gathered) ==
    IF TotalSize(gathered, 1) > MAX_TOTAL_SIZE THEN <<>> ELSE gathered

\* "/quit": lines 580-582, the break that ends the loop
Quit ==
    /\ pc = "prompt"
    /\ pc' = "quit"
    /\ cmd' = [NoCmd EXCEPT !.name = "quit", !.files0 = added_files]
    /\ UNCHANGED <<fs, added_files, conversation_history, last_ai_response,
                   ai_response, retry_count, creq, ereq, rounds>>
    /\ UNCHANGED mgrVars

Reset_bug ==
    /\ pc = "prompt"
    /\ conversation_history' = <<>>
    /\ last_ai_response' = None
    /\ cmd' = [NoCmd EXCEPT !.name = "reset", !.files0 = added_files,
                            !.history0 = conversation_history]
    /\ UNCHANGED <<pc, fs, added_files, ai_response, retry_count, creq, ereq,
                   rounds>>
    /\ UNCHANGED mgrVars

\* "/reset": lines 591-598
Reset ==
    /\ pc = "prompt"
    /\ conversation_history' = <<>>
    /\ added_files' = <<>>
    /\ last_ai_response' = None
    /\ cmd' = [NoCmd EXCEPT !.name = "reset", !.files0 = added_files,
                            !.history0 = conversation_history]
    /\ UNCHANGED <<pc, fs, ai_response, retry_count, creq, ereq, rounds>>
    /\ UNCHANGED mgrVars

\* "/add <paths>": lines 600-634.  Without paths the loop continues; when
\* the total size is above the ceiling the dict is cleared and the break
\* leaves the while loop, so main returns.
CmdAdd(paths) ==
    /\ pc = "prompt"
    /\ IF paths = <<>>
       THEN UNCHANGED <<pc, added_files, cmd>>
       ELSE LET gathered == AddAll(fs, paths, 1, added_files)
            IN  /\ added_files' = AfterAdd(added_files, gathered)
                /\ pc' = IF TotalSize(gathered, 1) > MAX_TOTAL_SIZE
                         THEN "ended" ELSE "prompt"
                /\ cmd' = [NoCmd EXCEPT !.name = "add",
                                        !.files0 = added_files,
                                        !.gathered = gathered,
                                        !.total = TotalSize(gathered, 1)]
    /\ UNCHANGED <<fs, conversation_history, last_ai_response, ai_response,
                   retry_count, creq, ereq, rounds>>
    /\ UNCHANGED mgrVars

\* ai_response = await chat_with_ai(message, is_edit_request=False,
\* added_files=added_files), and the "if ai_response:" that shows it
RoundTrip(name, message, outcome) ==
    LET c == ChatWithAI(message, FALSE, added_files, outcome)
    IN  /\ conversation_history' = c.history
        /\ last_ai_response' = c.last
        /\ ai_response' = c.ret
        /\ rounds' = rounds + 1
        /\ cmd' = [NoCmd EXCEPT !.name = name, !.files0 = added_files,
                                !.raised = ~outcome.ok, !.ret = c.ret]
        /\ UNCHANGED <<pc, fs, added_files, retry_count, creq, ereq>>
        /\ UNCHANGED mgrVars

\* a line that is no command: lines 816-824
CmdChat(user_input, outcome) ==
    /\ pc = "prompt"
    /\ RoundTrip("chat", Strip(user_input), outcome)

\* review_request (lines 797-799)
ReviewRequest(file_contents) ==
    <<CODE_REVIEW_PROMPT, NL, NL, "Files to review:", NL>>
    \o FilesToModify(file_contents, 1)

\* "/review <paths>": lines 754-808; the files go to a dict of their own
CmdReview(paths, outcome) ==
    /\ pc = "prompt"
    /\ LET file_contents == AddAll(fs, paths, 1, <<>>)
       IN  IF paths = <<>> \/ file_contents = <<>>
           THEN UNCHANGED vars
           ELSE RoundTrip("review", ReviewRequest(file_contents), outcome)

\* "/planning <instruction>": lines 810-826
CmdPlanning(planning_instruction, outcome) ==
    /\ pc = "prompt"
    /\ IF Strip(planning_instruction) = <<>>
       THEN UNCHANGED vars
       ELSE RoundTrip("planning",
                      <<PLANNING_PROMPT, NL, NL, "User request: ">>
                      \o Strip(planning_instruction), outcome)

(***************************************************************************)
(* The session after start-up, and the /create part of the main loop.      *)
(***************************************************************************)
NoEdit == NewEdit(<<>>, <<>>, InitialFs)
NoEnv == [MODEL |-> "ollama/qwen2.5-coder:14b", ANTHROPIC_API_KEY |-> Unset,
          OPENAI_API_KEY |-> Unset]
NoMgr == [FailedMgr("") EXCEPT !.state = "none"]

InitSession ==
    /\ pc = "prompt"
    /\ fs = InitialFs
    /\ added_files = <<>>
    /\ conversation_history = <<>>
    /\ last_ai_response = None
    /\ ai_response = None
    /\ retry_count = 0
    /\ creq = NoRequest
    /\ ereq = NoEdit
    /\ rounds = 0
    /\ env = NoEnv
    /\ mgr = NoMgr
    /\ cmd = NoCmd

NextCreate ==
    \/ \E i \in Instructions, o \in CreationOutcomes : CmdCreate(i, o)
    \/ \E a \in Answers : ConfirmCreate(a)
    \/ \E o \in CreationOutcomes : RetryChat(o)
    \/ \E a \in Answers, o \in CreationOutcomes, m \in BOOLEAN : AnswerFailed(a, o, m)

SpecCreate == InitSession /\ [][NextCreate]_vars

NextEdit ==
    \/ \E p \in EditPaths : CmdEdit(p)
    \/ \E o \in EditOutcomes : EditInstruction(<<"fix", SP>>, o)
    \/ \E a \in Answers : ConfirmEdit(a)
    \/ \E o \in RewriteOutcomes : RewriteReturn(o)
    \/ \E a \in Answers : ApplyAnswer(a)

SpecEdit == InitSession /\ [][NextEdit]_vars

\* Creation responses applied to several directories: a folder that is
\* absent in some, a file directive whose marker line ends the block, two
\* directives for one file, a read-only target before a writable one.
DirectiveResponses ==
    {<<FENCE, NL, FOLDER_MARK, "a", NL, FENCE>>,
     <<FENCE, NL, FILE_MARK, "c.txt", FENCE>>,
     <<FENCE, NL, FILE_MARK, "c.txt", NL, SP, "X", SP, NL, FENCE, NL,
       FENCE, "txt", NL, FILE_MARK, "c.txt", NL, "Z", NL, FENCE>>,
     <<FENCE, NL, FILE_MARK, "ro.txt", NL, "X", NL, FENCE, NL,
       FENCE, NL, FILE_MARK, "m.txt", NL, "Z", NL, FENCE>>,
     RFileOld, RMixed, RReadOnly}

DirectiveFs ==
    {InitialFs,
     [InitialFs EXCEPT !["a"] = DirOf(TRUE)],
     [InitialFs EXCEPT !["c.txt"] = FileOf(<<"Q", NL, "Q">>, TRUE)],
     [InitialFs EXCEPT !["d"] = DirOf(FALSE)]}

InitDirectives ==
    /\ pc = "prompt"
    /\ fs \in DirectiveFs
    /\ added_files = <<>>
    /\ conversation_history = <<>>
    /\ last_ai_response = None
    /\ ai_response = None
    /\ retry_count = 0
    /\ creq = NoRequest
    /\ ereq = NoEdit
    /\ rounds = 0
    /\ env = NoEnv
    /\ mgr = NoMgr
    /\ cmd = NoCmd

NextDirectives ==
    \/ \E r \in DirectiveResponses :
           rounds < MaxApplies /\ CmdCreate(<<"make", SP, "it">>, Returns(r))
    \/ \E a \in {YES, <<"n", "o">>} : ConfirmCreate(a)
    \/ AnswerFailed(<<"n", "o">>, Raises, FALSE)

SpecDirectives == InitDirectives /\ [][NextDirectives]_vars

\* parse_edit_instructions applied to every response of at most MaxLines
\* lines, each line one of: a marker, a marker with a blank after the path,
\* a marker without a path, an indented marker, a padded word, a blank
\* line, an empty line, a word.
ParseLineKinds ==
    {<<EDIT_MARK, "c.txt">>, <<EDIT_MARK, "m.txt", SP>>, <<EDIT_MARK>>,
     <<SP, EDIT_MARK, "c.txt">>, <<SP, "use", SP>>, <<SP>>, <<>>, <<"fix">>}

ParseTexts ==
    {JoinLines(ls, 1) :
        ls \in UNION {[1..n -> ParseLineKinds] : n \in 1..MaxLines}}

InitParse ==
    /\ pc = "edit_confirm"
    /\ fs = InitialFs
    /\ added_files = <<>>
    /\ conversation_history = <<>>
    /\ last_ai_response = None
    /\ ai_response \in ParseTexts
    /\ retry_count = 0
    /\ creq = NoRequest
    /\ ereq = NoEdit
    /\ rounds = 0
    /\ env = NoEnv
    /\ mgr = NoMgr
    /\ cmd = NoCmd

\* edit_instructions = parse_edit_instructions(ai_response): line 692
ParseResponse ==
    /\ pc = "edit_confirm"
    /\ pc' = "edit_parsed"
    /\ ereq' = [NoEdit EXCEPT
                   !.response = ai_response,
                   !.edit_instructions = parse_edit_instructions(ai_response)]
    /\ UNCHANGED <<fs, added_files, conversation_history, last_ai_response,
                   ai_response, retry_count, creq, rounds>>
    /\ UNCHANGED otherVars

NextParse == ParseResponse

SpecParse == InitParse /\ [][NextParse]_vars

\* chat_with_ai called once, as main calls it, in a session with some prior
\* turns and some added files.
PriorTurns ==
    {<<>>,
     << <<"q1">>, <<"a1">> >>,
     << <<"q1">>, <<"a1">>, <<"q2", NL, "more">>, <<"a2">> >>}

AddedContexts ==
    {<<>>,
     <<[path |-> "c.txt", content |-> <<"Y">>]>>,
     <<[path |-> "c.txt", content |-> <<"Y">>],
       [path |-> "m.txt", content |-> <<"M", NL>>]>>,
     <<[path |-> "m.txt", content |-> <<"M", NL>>],
       [path |-> "c.txt", content |-> <<"Y">>]>>}

InitAssemble ==
    /\ pc = "prompt"
    /\ fs = InitialFs
    /\ added_files \in AddedContexts
    /\ conversation_history \in PriorTurns
    /\ last_ai_response = None
    /\ ai_response = None
    /\ retry_count = 0
    /\ creq = NoRequest
    /\ ereq = NoEdit
    /\ rounds = 0
    /\ env = NoEnv
    /\ mgr = NoMgr
    /\ cmd = NoCmd

\* chat_with_ai(user_message, is_edit_request, added_files=added_files)
ChatCall(user_message, is_edit_request, outcome) ==
    /\ pc = "prompt"
    /\ LET c == ChatWithAI(user_message, is_edit_request, added_files, outcome)
       IN  /\ conversation_history' = c.history
           /\ last_ai_response' = c.last
           /\ ai_response' = c.ret
           /\ cmd' = [NoCmd EXCEPT !.name = "chat_with_ai",
                                   !.files0 = added_files,
                                   !.history0 = conversation_history,
                                   !.raised = ~outcome.ok, !.ret = c.ret,
                                   !.message = user_message,
                                   !.edit = is_edit_request,
                                   !.sent = c.sent]
    /\ pc' = "returned"
    /\ rounds' = rounds + 1
    /\ UNCHANGED <<fs, added_files, retry_count, creq, ereq>>
    /\ UNCHANGED mgrVars

NextAssemble ==
    \E m \in {<<"use">>, <<SP, "use">>, <<"fix", NL, "it">>}, e \in BOOLEAN,
       o \in {Raises, Returns(<<"Sorry">>)} : ChatCall(m, e, o)

SpecAssemble == InitAssemble /\ [][NextAssemble]_vars

\* What the user may type after "/add" and "/review".
AddPaths == {<<>>, <<"c.txt">>, <<"big">>, <<"huge.txt", "nope">>}
ReviewPaths == {<<>>, <<"nope">>, <<"m.txt">>}

\* The loop with its one-step commands.
NextSession ==
    \/ Quit
    \/ Reset
    \/ \E p \in AddPaths : CmdAdd(p)
    \/ \E o \in {Raises, Returns(<<"Sorry">>), Returns(None)} :
           rounds < MaxSessionRounds /\ CmdChat(<<SP, "use", SP>>, o)
    \/ \E p \in ReviewPaths, o \in {Raises, Returns(<<"Sorry">>)} :
           rounds < MaxSessionRounds /\ CmdReview(p, o)
    \/ \E i \in {<<SP>>, <<"use">>}, o \in {Raises, Returns(<<>>)} :
           rounds < MaxSessionRounds /\ CmdPlanning(i, o)

SpecSession == InitSession /\ [][NextSession]_vars

\* A long conversation: the same message again and again.
NextChat ==
    \/ Quit
    \/ Reset
    \/ \E o \in {Raises, Returns(<<"Sorry">>)} :
           rounds < MaxChats /\ CmdChat(<<"use">>, o)

SpecChat == InitSession /\ [][NextChat]_vars

\* A long conversation with added files, failed round-trips, the round-trip
\* of an edit request and resets in between.
NextTurns ==
    \/ Reset
    \/ \E o \in {Raises, Returns(<<"Sorry">>)} :
           rounds < MaxChats /\ CmdChat(<<"use">>, o)
    \/ CmdEdit(<<"c.txt">>)
    \/ \E o \in {Raises, Returns(ENoMarker)} : EditInstruction(<<"fix">>, o)
    \/ ConfirmEdit(<<"n", "o">>)

SpecTurns == InitSession /\ [][NextTurns]_vars

\* The process from its start: any environment, no manager yet.
InitMgr ==
    /\ pc = "start"
    /\ env \in [MODEL : ModelValues, ANTHROPIC_API_KEY : KeyValues,
                OPENAI_API_KEY : KeyValues]
    /\ mgr = NoMgr
    /\ fs = InitialFs
    /\ added_files = <<>>
    /\ conversation_history = <<>>
    /\ last_ai_response = None
    /\ ai_response = None
    /\ retry_count = 0
    /\ creq = NoRequest
    /\ ereq = NoEdit
    /\ rounds = 0
    /\ cmd = NoCmd

NextMgr ==
    \/ Construct
    \/ \E c \in BOOLEAN, t \in TransportOutcomes(mgr.provider) :
           ChatCompletion(c, t)

SpecMgr == InitMgr /\ [][NextMgr]_vars

(***************************************************************************)
(* Properties of the creation path, under SpecCreate.                      *)
(***************************************************************************)
\* the outcomes of a block that change the file system
Mutating == {"written"}

\* the file system `before` with the writes among `events` replayed in order
RECURSIVE Replay(_, _, _)
Replay(before, events, k) ==
    IF k > Len(events) THEN before
    ELSE Replay(IF events[k].ev.outcome = "written"
                THEN [before EXCEPT ![events[k].ev.path] =
                                        FileOf(events[k].ev.content, TRUE)]
                ELSE before,
                events, k + 1)

\* C1: applying the response that holds exactly one well-formed
\* "### FILE: a/b.txt" block with content X, when a/b.txt does not exist,
\* leaves a/b.txt existing with exactly the content X, and its parent
\* directory a existing.
C1_FileCreated ==
    (/\ creq.parsed = <<RFileNew>>
     /\ creq.result # "none"
     /\ creq.before["a/b.txt"].kind = "none")
    => /\ fs["a/b.txt"].kind = "file"
       /\ fs["a/b.txt"].content = <<"X">>
       /\ fs["a"].kind = "dir"

HasUnmarkedBlock(resp) ==
    \E b \in 1..Len(code_blocks(resp)) : ~InfoMatch(code_blocks(resp)[b])

C3_OnlyConfirmedWritten ==
    \A k \in 1..Len(creq.events) :
        creq.events[k].ev.outcome \in Mutating
        => /\ creq.events[k].resp = creq.confirmed
           /\ creq.events[k].rc = 0

\* C4 (as claimed): one call of apply_creation_steps parses at most 3
\* responses.
C4_AtMostThreeAttempts == creq.attempts <= 3

\* C4 (amended): one call of apply_creation_steps parses at most 4 responses
\* (the first and at most 3 retried ones), and once the 4th is parsed the
\* call has returned: it awaits no further retry.
C4_AtMostFourAttempts ==
    /\ creq.attempts <= 4
    /\ creq.attempts = Len(creq.parsed)
    /\ creq.attempts = 4 => (pc # "create_retry_chat" /\ creq.result # "none")

C4_Witness == creq.attempts = 4 /\ pc = "create_failed"

\* C5: a response with no fenced block leads to the retry round-trip; when
\* every response of the call is without fenced block, the call returns
\* False and has changed no file, and, when no round-trip failed, all
\* retries were used and the last response is the one echoed.
C5_ExhaustedRetries ==
    LET n == Len(creq.parsed)
        unparsable == n > 0 /\ \A k \in 1..n : code_blocks(creq.parsed[k]) = <<>>
    IN  /\ (unparsable /\ creq.result = "none") => pc = "create_retry_chat"
        /\ (unparsable /\ creq.result # "none")
           => /\ creq.result = "False"
              /\ creq.events = <<>>
              /\ fs = creq.before
              /\ ~creq.rtfailed => /\ creq.echoed = creq.parsed[n]
                                   /\ n = max_retries + 1

C5_Witness ==
    /\ pc = "create_failed"
    /\ creq.parsed = <<RNoBlock, RNoBlock, RNoBlock, RNoBlock>>
    /\ creq.echoed = RNoBlock
    /\ creq.result = "False"

(***************************************************************************)
(* Properties of the edit path, under SpecEdit.                            *)
(***************************************************************************)
\* the answers that are "yes" once trimmed and lowered
Affirmative == {YES, <<SP, "Y", "E", "S", SP>>}

\* C6: a file of the original set that is no key of the edit instructions
\* gets no round-trip and is not written, whatever the user answers.
C6_PassThroughUntouched ==
    /\ \A k \in 1..Len(ereq.sent) :
          ereq.sent[k].path \in Keys(ereq.edit_instructions)
    /\ \A k \in 1..Len(ereq.writes) :
          ereq.writes[k].path \in Keys(ereq.edit_instructions)

\* C7: when the proposed content equals the file's content after trimming,
\* apply_modifications reports "no changes": no prompt is shown for the file
\* and the file is not written.
C7_NoChangesNoWrite ==
    \A k \in 1..Len(ereq.handled) :
        LET h == ereq.handled[k]
        IN  Strip(h.old) = Strip(h.new)
            => /\ h.outcome = "no changes"
               /\ \A w \in 1..Len(ereq.writes) : ereq.writes[w].path # h.path
               /\ fs[h.path].content = h.old

C7_Witness ==
    \E k \in 1..Len(ereq.handled) :
        /\ ereq.handled[k].old # ereq.handled[k].new
        /\ Strip(ereq.handled[k].old) = Strip(ereq.handled[k].new)
        /\ ereq.handled[k].outcome = "no changes"
        /\ pc = "prompt"

\* C8: in the edit path a file is written only after the answer to its own
\* prompt was "yes" (trimmed, in any case); after any other answer, and for
\* every file not prompted, the content on disk is what it was.
C8_WriteOnlyOnYes ==
    /\ \A w \in 1..Len(ereq.writes) :
          /\ ereq.writes[w].answer \in Affirmative
          /\ \E k \in 1..Len(ereq.handled) :
                 /\ ereq.handled[k].path = ereq.writes[w].path
                 /\ ereq.handled[k].outcome = "prompt"
    /\ \A p \in Paths :
          fs[p] # ereq.before[p]
          => \E w \in 1..Len(ereq.writes) : ereq.writes[w].path = p

C8_Witness ==
    /\ Len(ereq.writes) = 1
    /\ ereq.writes[1].answer = <<SP, "Y", "E", "S", SP>>
    /\ fs["c.txt"].content = <<"Z">>
    /\ Len(ereq.handled) = 2
    /\ ereq.handled[2].outcome = "prompt"
    /\ fs["m.txt"] = ereq.before["m.txt"]
    /\ pc = "prompt"

NoMarkerLine(response) ==
    \A k \in 1..Len(SplitLines(response, 1)) :
        LET line == SplitLines(response, 1)[k]
        IN  line = <<>> \/ line[1] # EDIT_MARK

\* C9: a response with no line that starts with "File: " gives an empty
\* instruction map, and apply_edit_instructions then returns every original
\* file with its original content, sends nothing to the model and writes
\* nothing.
C9_NoMarkerNoEdit ==
    (ereq.response # <<>> /\ NoMarkerLine(ereq.response))
    => /\ ereq.edit_instructions = <<>>
       /\ ereq.modified_files = ereq.original_files
       /\ ereq.sent = <<>>
       /\ ereq.i = Len(ereq.original_files) + 1
       /\ ereq.writes = <<>> => fs = ereq.before

C9_Witness ==
    /\ ereq.response = ENoMarker
    /\ Len(ereq.original_files) = 2
    /\ ereq.modified_files = ereq.original_files
    /\ ereq.sent = <<>>

(***************************************************************************)
(* Properties of the model manager, under SpecMgr.                         *)
(***************************************************************************)
\* C10 (as claimed): for every MODEL value that is no key of the registry,
\* construction fails with ModelConfigurationError, and no client is
\* constructed and no network call issued.
C10_UnknownModelConfigurationError ==
    (mgr.state # "none" /\ env.MODEL \notin DOMAIN MODEL_CONFIG)
    => /\ mgr.state = "failed"
       /\ mgr.error = "ModelConfigurationError"
       /\ mgr.built = 0
       /\ mgr.network = 0

\* C10 (amended): for every MODEL value that is no key of the registry,
\* construction fails: with ModelNotFoundError when MODEL is set and not
\* empty, with ModelConfigurationError when it is unset or empty.  Both are
\* ModelError and neither is the other; the process exits, no client is
\* ever constructed and no network call issued.
C10_UnknownModelFails ==
    (mgr.state # "none" /\ env.MODEL \notin DOMAIN MODEL_CONFIG)
    => /\ mgr.state = "failed"
       /\ mgr.error = IF env.MODEL \in {Unset, ""}
                      THEN "ModelConfigurationError" ELSE "ModelNotFoundError"
       /\ "ModelError" \in Bases(mgr.error)
       /\ pc = "exited"
       /\ mgr.client = 0 /\ mgr.built = 0 /\ mgr.network = 0 /\ mgr.calls = 0

C10_Witness ==
    /\ env.MODEL = "gpt-4o"
    /\ mgr.state = "failed"
    /\ mgr.error = "ModelNotFoundError"
    /\ pc = "exited"

\* C11: for every registry entry that requires an API key, when the
\* variable named by its env_key is unset or empty the construction fails
\* with ModelConfigurationError, the process exits, and no client was
\* constructed and no call issued; a constructed manager therefore never
\* lacks its credential.
C11_MissingKeyFailsConstruction ==
    /\ \A name \in DOMAIN MODEL_CONFIG :
          (/\ mgr.state # "none"
           /\ env.MODEL = name
           /\ MODEL_CONFIG[name].requires_api_key
           /\ env[MODEL_CONFIG[name].env_key] \in {Unset, ""})
          => /\ mgr.state = "failed"
             /\ mgr.error = "ModelConfigurationError"
             /\ pc = "exited"
             /\ mgr.client = 0 /\ mgr.built = 0
             /\ mgr.network = 0 /\ mgr.calls = 0
    /\ (mgr.state = "constructed"
        /\ MODEL_CONFIG[mgr.full_model_name].requires_api_key)
       => env[MODEL_CONFIG[mgr.full_model_name].env_key] = "sk-key"

C11_Witness ==
    /\ env.MODEL = "openai/gpt-4o"
    /\ env.OPENAI_API_KEY = ""
    /\ env.ANTHROPIC_API_KEY = "sk-key"
    /\ mgr.state = "failed"
    /\ mgr.error = "ModelConfigurationError"
    /\ pc = "exited"

\* C18: no client exists before the first chat_completion call; over the
\* calls of one manager at most one client is ever constructed, and every
\* call that obtains a client obtains that one.
C18_ClientBuiltOnceLazily ==
    /\ mgr.calls = 0 => (mgr.client = 0 /\ mgr.built = 0 /\ mgr.used = <<>>)
    /\ mgr.built <= 1
    /\ mgr.client = mgr.built
    /\ \A i \in 1..Len(mgr.used) : mgr.used[i] = 1
    /\ Len(mgr.used) = mgr.network

C18_Witness ==
    /\ mgr.calls = 2
    /\ mgr.used = <<1, 1>>
    /\ mgr.built = 1

\* C19: a chat_completion call either returns or raises ModelAPIError; the
\* ModelAPIError carries the exception that was raised inside the call
\* (by the client construction, the transport or the formatter) at the head
\* of its __context__ chain, followed by that exception's own chain, and its
\* message ends with the text of that exception.
C19_OnlyModelAPIError ==
    (mgr.calls > 0 /\ ~mgr.last.returned)
    => /\ mgr.last.exc.type = "ModelAPIError"
       /\ mgr.last.original.type # ""
       /\ mgr.last.exc.context = <<mgr.last.original.type>>
                                     \o mgr.last.original.context
       /\ Len(mgr.last.exc.msg) > Len(mgr.last.original.msg)
       /\ SubSeq(mgr.last.exc.msg,
                 Len(mgr.last.exc.msg) - Len(mgr.last.original.msg) + 1,
                 Len(mgr.last.exc.msg)) = mgr.last.original.msg

C19_Witness ==
    /\ mgr.calls = 2
    /\ ~mgr.last.returned
    /\ mgr.last.exc.type = "ModelAPIError"
    /\ mgr.last.exc.context = <<"ModelConfigurationError", "ProviderClientError">>
    /\ mgr.last.exc.msg = <<"Error in chat completion", ": ",
                            "Error initializing client", ": ",
                            "ProviderClientError", " raised">>
    /\ mgr.network = 0

\* C20: when the provider's call returns a response that carries a message
\* text, chat_completion returns; the value returned has a tool_calls that
\* is a sequence, empty when the response carries no tool calls, and a
\* usage.total_tokens that is a natural number, 0 when the response carries
\* no usage.
C20_NormalizedShape ==
    (mgr.calls > 0 /\ mgr.last.native.content = "text")
    => /\ mgr.last.returned
       /\ mgr.last.value.tool_calls # None
       /\ mgr.last.native.tool_calls \in {"absent", "null"}
          => mgr.last.value.tool_calls = <<>>
       /\ mgr.last.value.usage.total_tokens \in Nat
       /\ mgr.last.native.usage \in {"absent", "null"}
          => mgr.last.value.usage.total_tokens = 0

(***************************************************************************)
(* Properties of the conversation and of the added files, under SpecChat   *)
(* and SpecSession.                                                        *)
(***************************************************************************)
\* C12: the conversation never holds more than 20 entries, and a successful
\* round-trip that is no edit request appends its two entries and keeps the
\* newest 20 of the result in their order: from 20 entries on, the two
\* oldest entries leave and 20 entries remain.
C12_KeepsNewestTwenty ==
    [][LET h == conversation_history
           g == conversation_history'
       IN  /\ Len(g) <= 20
           /\ (rounds' = rounds + 1 /\ ~cmd'.raised)
              => /\ Len(g) = IF Len(h) + 2 > 20 THEN 20 ELSE Len(h) + 2
                 /\ g[Len(g)] = cmd'.ret
                 /\ \A i \in 1..(Len(g) - 2) : g[i] = h[i + Len(h) + 2 - Len(g)]
                 /\ Len(h) = 20 => (Len(g) = 20 /\ g[1] = h[3])]_vars

C12_Witness ==
    /\ Len(conversation_history) = 20
    /\ conversation_history[1] # <<"use">>
    /\ conversation_history[20] = <<"Sorry">>
    /\ rounds >= 11

\* C13: when the files gathered by an /add command (those of earlier
\* commands included) are larger in total than MAX_TOTAL_SIZE, the command
\* leaves added_files empty; otherwise it leaves the gathered files.
C13_OverCeilingClearsAll ==
    cmd.name = "add"
    => /\ cmd.total > 3 * 200 * 1024 => added_files = <<>>
       /\ cmd.total <= 3 * 200 * 1024 => added_files = cmd.gathered

C13_Witness ==
    /\ cmd.name = "add"
    /\ Len(cmd.files0) = 3
    /\ Len(cmd.gathered) = 4
    /\ cmd.total = 3 * 200 * 1024 + 1
    /\ added_files = <<>>

\* C15: the loop is left only by /quit.
C15_LoopEndsOnlyOnQuit == pc # "prompt" => cmd.name = "quit"

\* C17: a round-trip that raises inside chat_with_ai gives None and leaves
\* the conversation, the added files and last_ai_response as they were.
C17_RaiseLeavesState ==
    [][(rounds' = rounds + 1 /\ cmd'.raised)
       => /\ cmd'.ret = None
          /\ ai_response' = None
          /\ conversation_history' = conversation_history
          /\ added_files' = added_files
          /\ last_ai_response' = last_ai_response]_vars

C17_Witness ==
    /\ cmd.raised
    /\ cmd.name = "chat"
    /\ Len(conversation_history) = 2
    /\ last_ai_response = <<"Sorry">>
    /\ ai_response = None
    /\ added_files # <<>>

\* C14: whenever the loop is back at its prompt, the contents held in
\* added_files are at most MAX_TOTAL_SIZE characters in total.
C14_TotalSizeBounded ==
    pc = "prompt" => TotalSize(added_files, 1) <= 3 * 200 * 1024

\* C16: when a /create request has ended without success (the round-trip
\* gave nothing, the user declined, or apply_creation_steps returned False),
\* the conversation and the added files are what they were when the request
\* was typed.
C16_FailedRequestLeavesSession ==
    (pc = "prompt" /\ (creq.declined \/ creq.result = "False"))
    => /\ conversation_history = creq.history0
       /\ added_files = creq.files0

(***************************************************************************)
(* Properties of the directives of a creation response, under              *)
(* SpecDirectives.                                                         *)
(***************************************************************************)
\* the block of the response that an event of the request reports on
BlockOf(e) == code_blocks(e.resp)[e.ev.block]

\* the text of a block after its first line, trimmed
DirectiveContent(code) ==
    LET c == Strip(code)
    IN  Strip(SubSeq(c, LineEnd(c, 1) + 1, Len(c)))

\* C21: once a FOLDER directive has been handled, the folder it names
\* exists, whether or not it existed before.
C21_FolderExistsAfter ==
    \A k \in 1..Len(creq.events) :
        LET code == BlockOf(creq.events[k])
        IN  (InfoMatch(code) /\ ItemType(code) = "FOLDER"
             /\ ItemPath(code) \in Paths
             /\ creq.before[ItemPath(code)].kind # "file")
            => fs[ItemPath(code)].kind = "dir"

\* C22: a FILE directive whose path is an existing writable file is written,
\* and what is written is the block without its marker line, trimmed.
C22_FileOverwritten ==
    \A k \in 1..Len(creq.events) :
        LET code == BlockOf(creq.events[k])
        IN  (InfoMatch(code) /\ ItemType(code) = "FILE"
             /\ ItemPath(code) \in Paths
             /\ creq.before[ItemPath(code)].kind = "file"
             /\ creq.before[ItemPath(code)].writable)
            => /\ creq.events[k].ev.outcome = "written"
               /\ creq.events[k].ev.content = DirectiveContent(code)

\* C23: a directive whose target exists and is not writable is skipped and
\* its target stays as it was; the blocks after it are still handled, and
\* the call returns True unless another block raises.
C23_UnwritableSkipped ==
    \A k \in 1..Len(creq.events) :
        LET code == BlockOf(creq.events[k])
            n == Len(code_blocks(creq.events[k].resp))
        IN  (InfoMatch(code) /\ ItemPath(code) \in Paths
             /\ creq.before[ItemPath(code)].kind # "none"
             /\ ~creq.before[ItemPath(code)].writable)
            => /\ creq.events[k].ev.outcome = "skip_perm"
               /\ fs[ItemPath(code)] = creq.before[ItemPath(code)]
               /\ k < n => Len(creq.events) > k
               /\ (\A j \in 1..Len(creq.events) :
                       creq.events[j].ev.outcome # "error")
                  => (Len(creq.events) = n /\ creq.result = "True")

C23_Witness ==
    /\ Len(creq.events) = 2
    /\ creq.events[1].ev.outcome = "skip_perm"
    /\ creq.events[1].ev.path = "ro.txt"
    /\ creq.events[2].ev.outcome = "written"
    /\ fs["m.txt"].content = <<"Z">>
    /\ fs["ro.txt"].content = <<"Y">>
    /\ creq.result = "True"

\* C26: the events of a creation request are those of the blocks of the
\* response in their textual order, one per block; the file system is the
\* one before the request with the writes replayed in that order, so the
\* last directive for a path decides its content.
C26_BlocksInOrder ==
    /\ \A k \in 1..Len(creq.events) :
          /\ creq.events[k].ev.block = k
          /\ creq.events[k].resp = creq.events[1].resp
          /\ InfoMatch(BlockOf(creq.events[k]))
             => creq.events[k].ev.path = ItemPath(code_blocks(creq.events[1].resp)[k])
          /\ (/\ creq.events[k].ev.outcome = "written"
              /\ \A j \in (k + 1)..Len(creq.events) :
                    ~(creq.events[j].ev.outcome = "written"
                      /\ creq.events[j].ev.path = creq.events[k].ev.path))
             => fs[creq.events[k].ev.path].content = creq.events[k].ev.content
    /\ creq.events # <<>> => fs = Replay(creq.before, creq.events, 1)

C26_Witness ==
    /\ Len(creq.events) = 2
    /\ creq.events[1].ev.outcome = "written"
    /\ creq.events[1].ev.content = <<"X">>
    /\ creq.events[2].ev.outcome = "written"
    /\ creq.events[2].ev.content = <<"Z">>
    /\ creq.events[1].ev.path = "c.txt"
    /\ creq.events[2].ev.path = "c.txt"
    /\ fs["c.txt"].content = <<"Z">>

(***************************************************************************)
(* The waits of the automatic creation retries, under SpecCreate.          *)
(***************************************************************************)
\* C27 (as claimed): the wait before the first automatic retry is 2 seconds
\* and every later wait is twice the one before it.
C27_FirstWaitTwoSeconds ==
    /\ creq.slept # <<>> => creq.slept[1] = 2
    /\ \A n \in 1..(Len(creq.slept) - 1) :
          creq.slept[n + 1] = 2 * creq.slept[n]

\* C27 (amended): the wait before the n-th automatic retry is 2^(n-1)
\* seconds: 1 second before the first, then doubling, at most three waits.
C27_FirstWaitOneSecond ==
    /\ Len(creq.slept) <= max_retries
    /\ \A n \in 1..Len(creq.slept) : creq.slept[n] = 2 ^ (n - 1)
    /\ \A n \in 1..(Len(creq.slept) - 1) :
          creq.slept[n + 1] = 2 * creq.slept[n]

C27_Witness ==
    /\ creq.slept = <<1, 2, 4>>
    /\ creq.attempts = 4

(***************************************************************************)
(* The rewrite round-trips of an edit request, under SpecEdit.             *)
(***************************************************************************)
\* the text t occurs in the message m
Occurs(t, m) == \E i \in 1..Len(m) : m[i] = t

\* C28: every rewrite round-trip of an edit request is for a file that is
\* keyed in the instruction map and present in the original set, one per
\* file; its message embeds the original content and the instruction block,
\* carries the rewrite prompt and not the instruction-generation prompt, and
\* no added-files block.
C28_RewriteUnderApplyPrompt ==
    /\ \A k \in 1..Len(ereq.sent) :
          LET p == ereq.sent[k].path
              m == ereq.sent[k].message
          IN  /\ p \in Keys(ereq.edit_instructions)
              /\ p \in Keys(ereq.original_files)
              /\ \A j \in 1..Len(ereq.sent) : ereq.sent[j].path = p => j = k
              /\ Occurs(APPLY_EDITS_PROMPT, m)
              /\ ~Occurs(EDIT_INSTRUCTION_PROMPT, m)
              /\ ~Occurs("Added files:", m)

(***************************************************************************)
(* The order of the round-trips and writes of an edit request, under       *)
(* SpecEdit.                                                               *)
(***************************************************************************)
\* the place of the key k in the dict d
Pos(d, k) == CHOOSE i \in 1..Len(d) : d[i].path = k

\* the entries of q are in the order their paths have in the dict d
InOrderOf(q, d) ==
    \A k, j \in 1..Len(q) :
        k < j => /\ q[k].path \in Keys(d)
                 /\ q[j].path \in Keys(d)
                 /\ Pos(d, q[k].path) < Pos(d, q[j].path)

\* C25 (as claimed): the rewrite round-trips and the confirmed writes of an
\* edit request are in the order of the "File:" blocks of the response.
C25_InstructionOrder ==
    /\ InOrderOf(ereq.sent, ereq.edit_instructions)
    /\ InOrderOf(ereq.writes, ereq.edit_instructions)

\* C25 (amended): the rewrite round-trips and the confirmed writes of an
\* edit request are in the order in which the files entered the added-file
\* context, and no write happens before the last round-trip has returned.
C25_ContextOrder ==
    /\ InOrderOf(ereq.sent, ereq.original_files)
    /\ InOrderOf(ereq.handled, ereq.original_files)
    /\ InOrderOf(ereq.writes, ereq.original_files)
    /\ ereq.handled # <<>> => ereq.i > Len(ereq.original_files)

C25_Witness ==
    /\ Len(ereq.sent) = 2
    /\ ereq.sent[1].path = "c.txt"
    /\ ereq.sent[2].path = "m.txt"
    /\ Len(ereq.writes) = 2
    /\ ereq.writes[1].path = "c.txt"
    /\ ereq.writes[2].path = "m.txt"
    /\ Pos(ereq.edit_instructions, "m.txt") < Pos(ereq.edit_instructions, "c.txt")

(***************************************************************************)
(* /reset, under SpecSession.                                              *)
(***************************************************************************)
\* C24: a step that handles "/reset" leaves the conversation empty, the
\* added-file context empty and the last AI response unset, whatever they
\* held before, and changes no file; the loop stays at its prompt.
C24_ResetClears ==
    [][(cmd'.name = "reset" /\ pc = "prompt")
       => /\ conversation_history' = <<>>
          /\ added_files' = <<>>
          /\ last_ai_response' = None
          /\ fs' = fs
          /\ pc' = "prompt"]_vars

C24_Witness ==
    /\ cmd.name = "reset"
    /\ cmd.history0 # <<>>
    /\ cmd.files0 # <<>>
    /\ conversation_history = <<>>
    /\ added_files = <<>>
    /\ last_ai_response = None

(***************************************************************************)
(* parse_edit_instructions, under SpecParse.                               *)
(***************************************************************************)
\* the lines of the parsed response, and the places of its marker lines
ParsedLines == SplitLines(ereq.response, 1)
MarkerLines == {i \in 1..Len(ParsedLines) : IsMarkerLine(ParsedLines[i])}

\* the lines after line i, up to the next marker line or the end
BlockLines(i) ==
    LET later == {j \in MarkerLines : j > i}
        last == IF later = {} THEN Len(ParsedLines)
                ELSE (CHOOSE j \in later : \A k \in later : j <= k) - 1
    IN  SubSeq(ParsedLines, i + 1, last)

NonEmpty(line) == line # <<>>
NonBlank(line) == Strip(line) # <<>>
Stripped(ls) == [k \in 1..Len(ls) |-> Strip(ls[k])]

\* C29 (as claimed): every marker line's path is mapped to the non-empty
\* lines that follow the marker up to the next marker or the end, joined by
\* newlines, and the keys are exactly the paths named on marker lines.
C29_BlockPerMarker ==
    pc = "edit_parsed"
    => /\ Keys(ereq.edit_instructions)
              = {MarkerPath(ParsedLines[i]) : i \in MarkerLines}
       /\ \A i \in MarkerLines :
             /\ MarkerPath(ParsedLines[i]) \in Keys(ereq.edit_instructions)
             /\ Get(ereq.edit_instructions, MarkerPath(ParsedLines[i]))
                    = JoinLines(SelectSeq(BlockLines(i), NonEmpty), 1)

\* C29 (amended): the keys are the non-empty paths named on the lines that
\* begin with "File: ", in the order of their first marker; each is mapped
\* to the lines that follow its last marker up to the next marker or the
\* end, each line trimmed and the blank ones dropped, joined by newlines.
\* Lines before the first marker or after a marker without a path belong
\* to no file.
C29_LastBlockTrimmed ==
    pc = "edit_parsed"
    => LET named == {i \in MarkerLines : MarkerPath(ParsedLines[i]) # ""}
           lastOf(p) == CHOOSE i \in named :
                            /\ MarkerPath(ParsedLines[i]) = p
                            /\ \A j \in named :
                                  MarkerPath(ParsedLines[j]) = p => j <= i
           firstOf(p) == CHOOSE i \in named :
                            /\ MarkerPath(ParsedLines[i]) = p
                            /\ \A j \in named :
                                  MarkerPath(ParsedLines[j]) = p => i <= j
           d == ereq.edit_instructions
       IN  /\ Keys(d) = {MarkerPath(ParsedLines[i]) : i \in named}
           /\ Len(d) = Cardinality(Keys(d))
           /\ \A k, j \in 1..Len(d) :
                 k < j => firstOf(d[k].path) < firstOf(d[j].path)
           /\ \A k \in 1..Len(d) :
                 d[k].content
                    = JoinLines(Stripped(SelectSeq(BlockLines(lastOf(d[k].path)),
                                                   NonBlank)), 1)

C29_Witness ==
    /\ pc = "edit_parsed"
    /\ ereq.response = <<EDIT_MARK, "c.txt", NL, SP, "use", SP, NL, "fix">>
    /\ ereq.edit_instructions
           = <<[path |-> "c.txt", content |-> <<"use", NL, "fix">>]>>

(***************************************************************************)
(* The message chat_with_ai sends, under SpecAssemble.                     *)
(***************************************************************************)
\* the text t stands in the message m from position i on
OccursAt(t, m, i) ==
    /\ i >= 1
    /\ i + Len(t) - 1 <= Len(m)
    /\ SubSeq(m, i, i + Len(t) - 1) = t

\* the first position of t in m, 0 when there is none
Find(t, m) ==
    IF \E i \in 1..Len(m) : OccursAt(t, m, i)
    THEN CHOOSE i \in 1..Len(m) :
             OccursAt(t, m, i) /\ \A j \in 1..(i - 1) : ~OccursAt(t, m, j)
    ELSE 0

\* one entry of the added-files block, and one linearized turn
FileEntry(file) ==
    <<"File: ", file.path, NL, "Content:", NL>> \o file.content \o <<NL, NL>>
Turn(h, k) == <<IF k % 2 = 1 THEN "User: " ELSE "AI: ">> \o h[k]

\* C30: the message sent ends with the new user text; when there are added
\* files, an "Added files:" block with one entry per file, path and full
\* content, in the order of the dict, stands directly before it; when the
\* request is not an edit request the prior turns, labelled User and AI in
\* turn, stand before that, from the start of the message; an edit request
\* carries no prior turn.
C30_MessageLayout ==
    cmd.name = "chat_with_ai"
    => LET m == cmd.sent
           files == cmd.files0
           h == cmd.history0
           body == Len(m) - Len(cmd.message) + 1
           block == IF files = <<>> THEN body ELSE Find(<<"Added files:", NL>>, m)
       IN  /\ OccursAt(cmd.message, m, body)
           /\ files = <<>> => ~Occurs("Added files:", m)
           /\ files # <<>> =>
                 /\ block > 0
                 /\ Find(FileEntry(files[1]), m) = block + 2
                 /\ \A i \in 1..(Len(files) - 1) :
                       Find(FileEntry(files[i + 1]), m)
                          = Find(FileEntry(files[i]), m) + Len(FileEntry(files[i]))
                 /\ Find(FileEntry(files[Len(files)]), m)
                       + Len(FileEntry(files[Len(files)])) + 1 = body
           /\ (~cmd.edit /\ h # <<>>) =>
                 /\ OccursAt(Turn(h, 1), m, 1)
                 /\ \A k \in 1..(Len(h) - 1) :
                       OccursAt(Turn(h, k + 1), m,
                                Find(Turn(h, k), m) + Len(Turn(h, k)) + 1)
                 /\ Find(Turn(h, Len(h)), m) + Len(Turn(h, Len(h))) + 2 = block
                 /\ m[block - 1] = "User: "
           /\ (~cmd.edit /\ h = <<>>) => block = 1
           /\ cmd.edit =>
                 /\ ~Occurs("AI: ", m)
                 /\ ~Occurs("User: ", m)
                 /\ \A k \in 1..Len(h) : Find(h[k], m) = 0

C30_Witness ==
    /\ cmd.name = "chat_with_ai"
    /\ ~cmd.edit
    /\ Len(cmd.history0) = 4
    /\ Len(cmd.files0) = 2
    /\ cmd.files0[1].path = "m.txt"
    /\ cmd.sent[1] = "User: "
    /\ Find(<<"Added files:", NL>>, cmd.sent) > Find(<<"AI: ", "a2">>, cmd.sent)
    /\ Find(<<"Added files:", NL>>, cmd.sent) < Find(<<"fix", NL, "it">>, cmd.sent)

(***************************************************************************)
(* The turns of the conversation, under SpecTurns.                         *)
(***************************************************************************)
\* C31: the conversation holds an even number of entries; counting from 0,
\* every entry at an even index is what a user turn stored (it ends with
\* the text the user typed) and every entry at an odd index is the reply of
\* the model, so the labels Linearize gives by parity are the right ones.
C31_TurnsAlternate ==
    LET h == conversation_history
    IN  /\ Len(h) % 2 = 0
        /\ Len(h) <= 20
        /\ \A i \in 1..Len(h) :
              IF (i - 1) % 2 = 0
              THEN /\ h[i] # <<>>
                   /\ h[i][Len(h[i])] = "use"
                   /\ h[i] # <<"Sorry">>
              ELSE h[i] = <<"Sorry">>

C31_Witness ==
    /\ Len(conversation_history) = 20
    /\ rounds >= 11
    /\ conversation_history[1] # <<"use">>
    /\ conversation_history[1][1] = "User: "
    /\ conversation_history[20] = <<"Sorry">>

(***************************************************************************)
(* What a round-trip stores in the conversation, under SpecAssemble.       *)
(***************************************************************************)
\* C32: a successful round-trip that is no edit request appends the whole
\* message it sent, and then the reply; the stored user entry ends with the
\* new user text and holds the text of every entry the conversation had
\* when it was sent.  Any other call leaves the conversation as it was.
C32_StoresWholeMessage ==
    cmd.name = "chat_with_ai"
    => IF ~cmd.edit /\ ~cmd.raised
       THEN /\ conversation_history = cmd.history0 \o <<cmd.sent, cmd.ret>>
            /\ OccursAt(cmd.message, cmd.sent,
                        Len(cmd.sent) - Len(cmd.message) + 1)
            /\ \A k \in 1..Len(cmd.history0) :
                  Find(cmd.history0[k], cmd.sent) > 0
            /\ cmd.files0 # <<>> => Occurs("Added files:", cmd.sent)
            /\ (cmd.files0 # <<>> \/ cmd.history0 # <<>>)
               => Len(cmd.sent) > Len(cmd.message)
       ELSE conversation_history = cmd.history0

C32_Witness ==
    /\ cmd.name = "chat_with_ai"
    /\ ~cmd.edit
    /\ ~cmd.raised
    /\ Len(cmd.history0) = 4
    /\ Len(cmd.files0) = 2
    /\ Len(conversation_history) = 6
    /\ conversation_history[5] # cmd.message
    /\ Find(<<"q2", NL, "more">>, conversation_history[5]) > 0
    /\ conversation_history[6] = <<"Sorry">>

(***************************************************************************)
(* What apply_creation_steps reports, under SpecCreate.                    *)
(***************************************************************************)
\* C33: within one call of apply_creation_steps, every automatic retry
\* follows a response without a fenced block, and a response with at least
\* one fenced block ends the call: with True when no block raised, also
\* when every block was skipped and the file system is as it was.
C33_TrueWithAnyBlock ==
    LET n == Len(creq.parsed)
        skipped == {"skip_nomarker", "skip_missing", "skip_perm"}
    IN  /\ Len(creq.slept) <= n
        /\ \A k \in 1..Len(creq.slept) : code_blocks(creq.parsed[k]) = <<>>
        /\ pc = "create_retry_chat" => Len(creq.slept) = n
        /\ \A k \in 1..n :
              code_blocks(creq.parsed[k]) # <<>>
              => /\ k = n
                 /\ Len(creq.slept) = n - 1
                 /\ pc # "create_retry_chat"
                 /\ creq.events # <<>>
                 /\ (\A e \in 1..Len(creq.events) :
                         creq.events[e].ev.outcome # "error")
                    => /\ creq.result = "True"
                       /\ Len(creq.events) = Len(code_blocks(creq.parsed[k]))
                 /\ (\A e \in 1..Len(creq.events) :
                         creq.events[e].ev.outcome \in skipped)
                    => /\ creq.result = "True"
                       /\ fs = creq.before

C33_Witness ==
    /\ creq.parsed = <<RNoBlock, RFileNew>>
    /\ creq.slept = <<1>>
    /\ Len(creq.events) = 1
    /\ creq.events[1].ev.outcome = "skip_missing"
    /\ creq.result = "True"
    /\ fs = creq.before
    /\ pc = "prompt"

(***************************************************************************)
(* Which files an edit request can write, under SpecEdit.                  *)
(***************************************************************************)
\* C34: every rewrite round-trip is for an original file; a file whose
\* round-trip gave no response is not in the result, is not proposed and is
\* not written, and the files after it are still handled; every proposal
\* and every write is for an original file that is in the result, with the
\* content the result holds for it.
C34_WritesOnlyResultFiles ==
    LET orig == Keys(ereq.original_files)
        res == Keys(ereq.modified_files)
        failed == {ereq.sent[k].path : k \in {n \in 1..Len(ereq.sent) :
                                                 ~Truthy(ereq.sent[n].ret)}}
    IN  /\ res \subseteq orig
        /\ \A k \in 1..Len(ereq.sent) :
              /\ ereq.sent[k].path \in orig
              /\ IF Truthy(ereq.sent[k].ret)
                 THEN /\ ereq.sent[k].path \in res
                      /\ Get(ereq.modified_files, ereq.sent[k].path)
                            = Strip(ereq.sent[k].ret)
                 ELSE ereq.sent[k].path \notin res
        /\ \A k \in 1..Len(ereq.handled) :
              ereq.handled[k].path \in res \ failed
        /\ \A k \in 1..Len(ereq.writes) :
              /\ ereq.writes[k].path \in (res \cap orig) \ failed
              /\ ereq.writes[k].content
                    = Get(ereq.modified_files, ereq.writes[k].path)
        /\ \A p \in Paths :
              (p \notin orig \/ p \in failed) => fs[p] = ereq.before[p]
        /\ ereq.i > Len(ereq.original_files) => orig = res \cup failed

C34_Witness ==
    /\ Len(ereq.sent) = 2
    /\ ereq.sent[1].path = "c.txt"
    /\ ~Truthy(ereq.sent[1].ret)
    /\ Truthy(ereq.sent[2].ret)
    /\ "zz" \in Keys(ereq.edit_instructions)
    /\ Keys(ereq.modified_files) = {"m.txt"}
    /\ Len(ereq.writes) = 1
    /\ ereq.writes[1].path = "m.txt"
    /\ fs["c.txt"] = ereq.before["c.txt"]
    /\ fs["m.txt"] # ereq.before["m.txt"]

=============================================================================
